---- MODULE Spec2Model ----
(***************************************************************************)
(* peroxide-cryptsetup: the database of enrolled LUKS volumes and the      *)
(* operations over it (init, register, enroll, open), as implemented by    *)
(* src/lib/context.rs, src/lib/db.rs, src/lib/device.rs and the peroxs     *)
(* command-line operations.                                                *)
(*                                                                         *)
(* Every operation is one action.  The action records the inputs of the    *)
(* call (call), the state it started from (pre), the sequence of           *)
(* observable steps it made (trace) and what it returned (res).            *)
(***************************************************************************)
EXTENDS Integers, Sequences, FiniteSets, TLC

(* ---------------------------------------------------------------------- *)
(* Bounds                                                                  *)
(* ---------------------------------------------------------------------- *)

\* number of block devices
NumDevices == 2
\* number of distinct key values a prompt may return
NumKeys == 2
\* uuids that Uuid::new_v4 may hand out
MaxUuid == 4
\* longest database
MaxEntries == 3
\* longest batch of paths given to one operation
MaxBatch == 2
\* operations in one run
MaxOps == 2

Devices == 1..NumDevices
Keys == 1..NumKeys

(* ---------------------------------------------------------------------- *)
(* Values                                                                  *)
(* ---------------------------------------------------------------------- *)

\* Option::None for uuids, names, keys and token ids
NoUuid == 0
NoName == "<none>"
NoKey == 0
NoToken == -1
NoPath == "<none>"

DB_VERSION == 1

NameOpts == {"d1", NoName}
OverrideOpts == {"grp", NoName}
DbTypes == {"Operation", "Backup"}
KeyfilePath == "kf"

\* batches of paths: non-empty, a device may be named more than once
Batches == UNION {[1..n -> Devices] : n \in 1..MaxBatch}

\* uuid.hyphenated().to_string()
UuidString(uuid) == "0000-" \o ToString(uuid)

Range(s) == {s[i] : i \in DOMAIN s}

Min(S) == CHOOSE i \in S : \A j \in S : i <= j

RECURSIVE Flatten(_)
Flatten(ss) == IF ss = <<>> THEN <<>> ELSE Head(ss) \o Flatten(Tail(ss))

\* one observable step of an operation: what was done, for which position
\* of the batch (0 when it is not about one path), whether it succeeded, and
\* for a volume-adapter mutation the device as the call left it
Ev(ev, i, ok) == [ev |-> ev, i |-> i, ok |-> ok, after |-> [uuid |-> NoUuid, slots |-> {}]]

Mutation(ev, i, ok, after) == [ev |-> ev, i |-> i, ok |-> ok, after |-> after]

(* ---------------------------------------------------------------------- *)
(* db.rs                                                                   *)
(* ---------------------------------------------------------------------- *)

VolumeId_of(name, uuid) == [name |-> name, uuid |-> uuid, luks2_token_id |-> NoToken]

PassphraseEntry(volume_id) ==
    [kind |-> "Passphrase", key_file |-> NoPath, volume_id |-> volume_id]

KeyfileEntry(key_file, volume_id) ==
    [kind |-> "Keyfile", key_file |-> key_file, volume_id |-> volume_id]

YubikeyEntry(entry_type, slot, volume_id) ==
    [kind |-> "Yubikey", key_file |-> NoPath, entry_type |-> entry_type,
     slot |-> slot, volume_id |-> volume_id]

PeroxideDb_new(db_type) ==
    [entries |-> <<>>, db_type |-> db_type, version |-> DB_VERSION]

\* the database file: absent, unreadable (left half-written), or the JSON
\* of a database
NoFile == [st |-> "absent", db |-> PeroxideDb_new("Operation")]
FileOf(db) == [st |-> "ok", db |-> db]

SaveOutcomes == {"ok", "create_failed", "write_failed"}

\* PeroxideDb::save_to: File::create truncates the file, then the JSON is
\* written into it
save_to(f, db, outcome) ==
    CASE outcome = "ok" -> FileOf(db)
      [] outcome = "create_failed" -> f
      [] OTHER -> [st |-> "corrupt", db |-> PeroxideDb_new("Operation")]

\* PeroxideDb::open_at
open_at_err(f) ==
    CASE f.st = "absent" -> "DatabaseNotFound"
      [] f.st = "corrupt" -> "SerialisationError"
      [] OTHER -> "Ok"

(* ---------------------------------------------------------------------- *)
(* context.rs: DatabaseOps                                                 *)
(* ---------------------------------------------------------------------- *)

\* a lookup that takes the first entry whatever its uuid (faulty variant of
\* find_entry_idx)
find_entry_idx_any(db, uuid) == IF db.entries = <<>> THEN 0 ELSE 1

\* find_entry: the position of the first entry with the uuid (0: None)
find_entry_idx(db, uuid) ==
    LET hits == {i \in DOMAIN db.entries : db.entries[i].volume_id.uuid = uuid}
    IN  IF hits = {} THEN 0 ELSE Min(hits)

\* a database that never finds an entry (faulty variant of entry_exists)
entry_exists_never(db, uuid) == FALSE

entry_exists(db, uuid) == find_entry_idx(db, uuid) # 0

\* nothing saved, nothing opened
CodecIdle == [db |-> PeroxideDb_new("Operation"), doc |-> <<>>, opened |-> <<>>]

\* terminal attributes: the ECHO and ECHONL bits of c_lflag
Termios(echo, echonl) == [echo |-> echo, echonl |-> echonl]

\* a terminal in its usual mode, no prompt made
TtyIdle ==
    [mode |-> Termios(TRUE, FALSE), before |-> Termios(TRUE, FALSE), prompt |-> "none",
     steps |-> <<>>, err |-> "Ok", key |-> <<>>, prompts |-> 0]

\* paths are sequences of components; an absolute path starts with "/"
DbDir == <<"/", "db">>
CurrentDir == <<"/", "cwd">>
KeysDir == <<"/", "keys">>

\* what a path can hold
Missing == [kind |-> "missing", bytes |-> <<>>, to |-> <<>>]
RegularFile(bytes) == [kind |-> "file", bytes |-> bytes, to |-> <<>>]
Symlink(to) == [kind |-> "link", bytes |-> <<>>, to |-> to]

KeyFiles == {DbDir \o <<"k">>, CurrentDir \o <<"k">>, KeysDir \o <<"k">>}

\* no key file anywhere, none read
KfIdle ==
    [fs |-> [p \in KeyFiles |-> Missing], key_path |-> <<>>, io_ok |-> TRUE, err |-> "Ok",
     key |-> <<>>, reads |-> 0]

\* no buffer was ever allocated
MemIdle == <<>>

\* no key derived
YkIdle ==
    [entry_type |-> "none", slot |-> 0, chal |-> <<>>, other |-> <<>>, uuid |-> <<>>,
     calls |-> <<>>, err |-> "Ok", key |-> <<>>, derived |-> 0]

\* threads of the process that may ask for the token
NumThreads == 2

\* YK_ERR::EUSBERR
YK_EUSBERR == 1

\* the token library before any call: the Once not yet run, FFI_INIT_RESULT
\* zero, no error number set.  tsd tells whether _yk_errno_location hands
\* every thread a location of its own (errno[t]) or all threads one
\* (errno[0])
FfiIdle ==
    [once |-> "new", result |-> 0, tsd |-> TRUE, errno |-> [t \in 0..NumThreads |-> 0],
     native |-> "none", runs |-> 0,
     pc |-> [t \in 1..NumThreads |-> "idle"],
     ret |-> [t \in 1..NumThreads |-> "none"],
     calls |-> [t \in 1..NumThreads |-> 0]]

(* ---------------------------------------------------------------------- *)
(* State                                                                   *)
(* ---------------------------------------------------------------------- *)

VARIABLES
    file,       \* the database file at db_location
    db,         \* the PeroxideDb value held by the caller of the last operation
    dev,        \* per device: LUKS header uuid (NoUuid: no header) and keyslots
    active,     \* names of the active device-mapper mappings
    nextUuid,   \* next uuid Uuid::new_v4 hands out
    call,       \* inputs of the last operation
    pre,        \* file, dev and active when the last operation started
    trace,      \* steps of the last operation, in order
    res,        \* what the last operation returned
    ops,        \* operations run so far
    codec,      \* a database value, the JSON document written from it and
                \* what opening that document returned
    tty,        \* the terminal: its attributes, and the last passphrase prompt
    kf,         \* the files a key file path can name, and the last key file read
    mem,        \* the buffers that hold or held key material
    yk,         \* the token, and the last key derived with it
    ffi         \* the token library: its one-time initialization and the threads
                \* that ask for it

\* codec, tty, kf, mem, yk and ffi belong to parts of the program that are
\* exercised on their own, apart from the operations on database and devices
program == <<file, db, dev, active, nextUuid, call, pre, trace, res, ops>>

vars == <<file, db, dev, active, nextUuid, call, pre, trace, res, ops, codec, tty, kf, mem, yk, ffi>>

NoCall ==
    [op |-> "none", paths |-> <<>>, format |-> FALSE, force_format |-> FALSE,
     name |-> NoName, entry |-> "Passphrase", luks |-> 1, db_type |-> "Operation",
     name_override |-> NoName, backup |-> "none"]

Snapshot == [file |-> file, dev |-> dev, active |-> active]

\* every operation is one run of the program: nothing of an earlier run is
\* left in memory when it starts
CanRun == call.op = "none" /\ ops < MaxOps

Begin(c) ==
    /\ CanRun
    /\ ops' = ops + 1
    /\ call' = c
    /\ pre' = Snapshot
    /\ UNCHANGED <<codec, tty, kf, mem, yk, ffi>>

Result(err, uuid, name, entries, names) ==
    [err |-> err, uuid |-> uuid, name |-> name, entries |-> entries, names |-> names]

BlankDevice == [uuid |-> NoUuid, slots |-> {}]

\* a device that was formatted outside this program carries the uuid of its
\* own number and one keyslot
ForeignDevice(d) == [uuid |-> d, slots |-> {1}]



Init ==
    /\ file \in {NoFile, FileOf(PeroxideDb_new("Operation"))}
    /\ db = PeroxideDb_new("Operation")
    /\ dev \in [Devices -> {BlankDevice} \cup {ForeignDevice(d) : d \in Devices}]
    /\ \A d \in Devices : dev[d] \in {BlankDevice, ForeignDevice(d)}
    /\ active \in {{}, {"d1", "grp_1"}}    \* mappings other programs left active
    /\ nextUuid = NumDevices + 1
    /\ call = NoCall
    /\ pre = Snapshot
    /\ trace = <<>>
    /\ res = Result("Ok", NoUuid, NoName, <<>>, <<>>)
    /\ ops = 0
    /\ codec = CodecIdle
    /\ tty = TtyIdle
    /\ kf = KfIdle
    /\ mem = MemIdle
    /\ yk = YkIdle /\ ffi = FfiIdle

(* ---------------------------------------------------------------------- *)
(* device.rs: LuksVolumeOps                                                *)
(* ---------------------------------------------------------------------- *)

\* luks_uuid(path).ok(): Some(uuid) when the device carries a header
luks_uuid(devs, p) == devs[p].uuid

(* ---------------------------------------------------------------------- *)
(* peroxs init                                                             *)
(* ---------------------------------------------------------------------- *)

\* a new database saved whatever is at the location (faulty variant of NewDb)
NewDb_overwrites(db_type, save) ==
    /\ Begin([NoCall EXCEPT !.op = "newdb", !.db_type = db_type])
    /\ file' = save_to(file, PeroxideDb_new(db_type), save)
    /\ db' = PeroxideDb_new(db_type)
    /\ trace' = <<Ev("save", 0, save = "ok")>>
    /\ res' = Result(IF save = "ok" THEN "Ok" ELSE "DatabaseError",
                     NoUuid, NoName, <<>>, <<>>)
    /\ UNCHANGED <<dev, active, nextUuid>>

NewDb(db_type, save) ==
    /\ Begin([NoCall EXCEPT !.op = "newdb", !.db_type = db_type])
    /\ IF file.st # "absent"
       THEN /\ res' = Result("ValidationError", NoUuid, NoName, <<>>, <<>>)
            /\ trace' = <<>>
            /\ UNCHANGED <<file, db>>
       ELSE /\ file' = save_to(file, PeroxideDb_new(db_type), save)
            /\ db' = PeroxideDb_new(db_type)
            /\ trace' = <<Ev("save", 0, save = "ok")>>
            /\ res' = Result(IF save = "ok" THEN "Ok" ELSE "DatabaseError",
                             NoUuid, NoName, <<>>, <<>>)
    /\ UNCHANGED <<dev, active, nextUuid>>

(* ---------------------------------------------------------------------- *)
(* peroxs register                                                         *)
(* ---------------------------------------------------------------------- *)

\* a to_entry that takes any entry type (faulty variant of to_entry_err)
to_entry_err_any_type(devs, p, entry_type) ==
    IF luks_uuid(devs, p) = NoUuid THEN "DeviceError" ELSE "Ok"

\* to_entry: the uuid is read first, then the entry type is matched
to_entry_err(devs, p, entry_type) ==
    CASE luks_uuid(devs, p) = NoUuid -> "DeviceError"
      [] entry_type \notin {"Keyfile", "Passphrase"} -> "ValidationError"
      [] OTHER -> "Ok"

to_entry(devs, p, entry_type, name) ==
    LET volume_id == VolumeId_of(name, luks_uuid(devs, p))
    IN  IF entry_type = "Keyfile"
        THEN KeyfileEntry(KeyfilePath, volume_id)
        ELSE PassphraseEntry(volume_id)

Register(paths, entry_type, name, save) ==
    LET n == Len(paths)
        failing == {i \in 1..n : to_entry_err(dev, paths[i], entry_type) # "Ok"}
        last == IF failing = {} THEN n ELSE Min(failing)
        probes == [i \in 1..last |-> Ev("luks_uuid", i, luks_uuid(dev, paths[i]) # NoUuid)]
        entries == [i \in 1..n |-> to_entry(dev, paths[i], entry_type, name)]
        pushed == [file.db EXCEPT !.entries = @ \o entries]
    IN  /\ Len(file.db.entries) + n <= MaxEntries
        /\ Begin([NoCall EXCEPT !.op = "register", !.paths = paths,
                                !.entry = entry_type, !.name = name])
        /\ IF open_at_err(file) # "Ok"
           THEN /\ res' = Result("DatabaseError", NoUuid, NoName, <<>>, <<>>)
                /\ trace' = <<>>
                /\ UNCHANGED <<file, db>>
           ELSE IF failing # {}
           THEN /\ res' = Result(to_entry_err(dev, paths[last], entry_type),
                                 NoUuid, NoName, <<>>, <<>>)
                /\ trace' = probes
                /\ db' = file.db
                /\ UNCHANGED file
           ELSE /\ res' = Result(IF save = "ok" THEN "Ok" ELSE "DatabaseError",
                                 NoUuid, NoName, entries, <<>>)
                /\ trace' = probes \o <<Ev("save", 0, save = "ok")>>
                /\ db' = pushed
                /\ file' = save_to(file, pushed, save)
        /\ UNCHANGED <<dev, active, nextUuid>>

(* ---------------------------------------------------------------------- *)
(* device.rs: format and add-keyslot                                       *)
(* ---------------------------------------------------------------------- *)

\* id libcryptsetup gives the first token of a freshly formatted LUKS2 header
FirstTokenId == 0

\* where a luks_format_with_key call stops: "ok", or the failing `?`:
\* the format itself, add_keyslot, or (LUKS2) add_token

\* the device after luks_format_with_key(key, params) with params.uuid = uuid
luks_format_with_key(d, key, uuid, stage) ==
    CASE stage = "format" -> d
      [] stage = "keyslot" -> [uuid |-> uuid, slots |-> {}]
      [] OTHER -> [uuid |-> uuid, slots |-> {key}]

\* the token id in FormatResult
FormatResult_token_id(luks) == IF luks = 2 THEN FirstTokenId ELSE NoToken

\* luks_add_key succeeds when the previous key opens a keyslot of the header
luks_add_key_ok(d, prev_key, io_ok) ==
    /\ d.uuid # NoUuid
    /\ prev_key \in d.slots
    /\ io_ok

luks_add_key(d, new_key, prev_key, io_ok) ==
    IF luks_add_key_ok(d, prev_key, io_ok)
    THEN [d EXCEPT !.slots = @ \cup {new_key}]
    ELSE d

(* ---------------------------------------------------------------------- *)
(* context.rs: enroll_disks                                                *)
(* ---------------------------------------------------------------------- *)

entry_from(volume_id, entry) ==
    CASE entry = "Passphrase" -> PassphraseEntry(volume_id)
      [] entry = "Keyfile" -> KeyfileEntry(KeyfilePath, volume_id)
      [] OTHER -> YubikeyEntry("HybridChallengeResponse", 1, volume_id)

\* a loop that rejects a header whatever force_format says (faulty variant
\* of rejects)
rejects_ignoring_force(d, uuid_opt, format, force_format) ==
    /\ uuid_opt # NoUuid
    /\ \/ entry_exists(d, uuid_opt)
       \/ format

\* the validation loop over paths_with_existing_uuids rejects the path
rejects(d, uuid_opt, format, force_format) ==
    /\ uuid_opt # NoUuid
    /\ \/ entry_exists(d, uuid_opt)
       \/ format /\ ~force_format

\* a validation that looks for a known uuid anywhere in the batch before it
\* looks at the flags (faulty variant of validate_existing)
validate_existing_known_first(d, uuid_opts, format, force_format) ==
    LET known == {i \in DOMAIN uuid_opts :
                     uuid_opts[i] # NoUuid /\ entry_exists(d, uuid_opts[i])}
        bad == {i \in DOMAIN uuid_opts : rejects(d, uuid_opts[i], format, force_format)}
        at == IF known # {} THEN Min(known) ELSE IF bad = {} THEN 0 ELSE Min(bad)
    IN  [at |-> at,
         err |-> CASE at = 0 -> "Ok"
                   [] at # 0 /\ known # {} -> "EntryAlreadyExists"
                   [] OTHER -> "DeviceAlreadyFormatted",
         uuid |-> IF at = 0 THEN NoUuid ELSE uuid_opts[at]]

\* the position of the first path the validation loop rejects (0: none), the
\* error it returns for it and the uuid the error carries
validate_existing(d, uuid_opts, format, force_format) ==
    LET bad == {i \in DOMAIN uuid_opts : rejects(d, uuid_opts[i], format, force_format)}
        at == IF bad = {} THEN 0 ELSE Min(bad)
    IN  [at |-> at,
         err |-> CASE at = 0 -> "Ok"
                   [] at # 0 /\ entry_exists(d, uuid_opts[at]) -> "EntryAlreadyExists"
                   [] OTHER -> "DeviceAlreadyFormatted",
         uuid |-> IF at = 0 THEN NoUuid ELSE uuid_opts[at]]

\* the checks the validation loop makes for the path at position i
validation_steps(d, uuid_opts, format, force_format, i) ==
    IF uuid_opts[i] = NoUuid THEN <<>>
    ELSE IF entry_exists(d, uuid_opts[i])
    THEN <<Ev("check_entry_exists", i, FALSE)>>
    ELSE <<Ev("check_entry_exists", i, TRUE),
           Ev("check_already_formatted", i, ~(format /\ ~force_format))>>

count_formatted(uuid_opts) == Cardinality({i \in DOMAIN uuid_opts : uuid_opts[i] # NoUuid})

\* VolumeId per path: the existing uuid, else a fresh one; the name only
\* when one path is enrolled
volume_ids(uuid_opts, name, next) ==
    [i \in DOMAIN uuid_opts |->
        VolumeId_of(IF Len(uuid_opts) = 1 THEN name ELSE NoName,
                    IF uuid_opts[i] # NoUuid THEN uuid_opts[i]
                    ELSE next + Cardinality({j \in 1..(i - 1) : uuid_opts[j] = NoUuid}))]

has_duplicates(vids) == Len(vids) > Cardinality(Range(vids))

\* a format_container that drops the FormatResult (faulty variant of
\* format_container_entry)
format_container_entry_result_dropped(entry, luks) == entry

\* format_container: the entry after the call (the token id is recorded on
\* a LUKS2 result)
format_container_entry(entry, luks) ==
    IF luks = 2
    THEN [entry EXCEPT !.volume_id.luks2_token_id = FormatResult_token_id(luks)]
    ELSE entry

\* try_mapped_mut(format_container): the devices after the calls for
\* positions i..Len(paths), stopping at position failAt
RECURSIVE format_all(_, _, _, _, _, _, _)
format_all(devs, paths, entries, key, i, failAt, stage) ==
    IF i > Len(paths) THEN devs
    ELSE IF i = failAt
    THEN [devs EXCEPT ![paths[i]] =
              luks_format_with_key(@, key, entries[i].volume_id.uuid, stage)]
    ELSE format_all([devs EXCEPT ![paths[i]] =
                        luks_format_with_key(@, key, entries[i].volume_id.uuid, "ok")],
                    paths, entries, key, i + 1, failAt, stage)

\* try_mapped_ref(luks_add_key): devices and the first failing position
\* (0: none) after the calls for positions i..Len(paths)
RECURSIVE add_key_all(_, _, _, _, _, _)
add_key_all(devs, paths, new_key, prev_key, i, failAt) ==
    IF i > Len(paths) THEN [dev |-> devs, failed |-> 0]
    ELSE IF ~luks_add_key_ok(devs[paths[i]], prev_key, i # failAt)
    THEN [dev |-> devs, failed |-> i]
    ELSE add_key_all([devs EXCEPT ![paths[i]] = luks_add_key(@, new_key, prev_key, TRUE)],
                     paths, new_key, prev_key, i + 1, failAt)

\* a previous key asked for once per prompt and once more (faulty variant of
\* prompt_old_key)
prompt_old_key_twice(backup, old) ==
    CASE backup = "none" ->
           [key |-> old, steps |-> <<Ev("prompt_old", 1, old # NoKey),
                                     Ev("prompt_old", 1, old # NoKey)>>]
      [] backup = "open_failed" ->
           [key |-> NoKey, steps |-> <<Ev("open_backup", 1, FALSE)>>]
      [] backup = "no_entry" ->
           [key |-> NoKey, steps |-> <<Ev("backup_find_entry", 1, FALSE)>>]
      [] OTHER ->
           [key |-> old, steps |-> <<Ev("backup_find_entry", 1, TRUE),
                                     Ev("prompt_backup", 1, old # NoKey),
                                     Ev("prompt_backup", 1, old # NoKey)>>]

\* prompt_old_key: the previous key (NoKey: Err) and the steps made to get
\* it.  Without a backup database the passphrase prompt for the VolumeId of
\* the first entry; with one, BackupPrompt::prompt_key, whose errors are
\* returned.  A backup database that cannot be opened fails the caller.
prompt_old_key(backup, old) ==
    CASE backup = "none" ->
           [key |-> old, steps |-> <<Ev("prompt_old", 1, old # NoKey)>>]
      [] backup = "open_failed" ->
           [key |-> NoKey, steps |-> <<Ev("open_backup", 1, FALSE)>>]
      [] backup = "no_entry" ->
           [key |-> NoKey, steps |-> <<Ev("backup_find_entry", 1, FALSE)>>]
      [] OTHER ->
           [key |-> old, steps |-> <<Ev("backup_find_entry", 1, TRUE),
                                     Ev("prompt_backup", 1, old # NoKey)>>]

\* what happens around an enroll_disks call:
\*   old, new  the keys the prompts return (NoKey: the prompt fails)
\*   failAt    position of the volume-adapter call that fails (0: none)
\*   stage     where that call fails
\*   save      outcome of save_db
\*   backup    the backup database given to the call: "none", or one that
\*             cannot be opened ("open_failed"), has no entry for the uuid of
\*             the first path ("no_entry") or has one ("entry")
Env(old, new, failAt, stage, save) ==
    [old |-> old, new |-> new, failAt |-> failAt, stage |-> stage, save |-> save,
     backup |-> "none"]

\* the environments of a call that differ in something the call reads: a
\* failing prompt, any keys with a save that works, one new key with a
\* failing save or a failing adapter call, and an enrolment with a backup
\* database, where old is the key the backup context's prompt returns for
\* the entry found
EnrollEnvs(n, format, luks) ==
    LET olds == IF format THEN {NoKey} ELSE Keys
        stages == CASE ~format -> {"ok"}
                    [] format /\ luks = 1 -> {"format", "keyslot"}
                    [] OTHER -> {"format", "keyslot", "token"}
    IN  {Env(NoKey, NoKey, 0, "ok", "ok")}
        \cup {Env(o, NoKey, 0, "ok", "ok") : o \in Keys \cap olds}
        \cup {Env(o, k, 0, "ok", "ok") : o \in olds, k \in Keys}
        \cup {Env(o, 1, 0, "ok", sv) : o \in olds, sv \in SaveOutcomes}
        \cup {Env(o, 1, i, st, "ok") : o \in olds, i \in 1..n, st \in stages}
        \cup (IF format THEN {}
              ELSE {[Env(o, 1, 0, "ok", "ok") EXCEPT !.backup = b] :
                        o \in Keys \cup {NoKey}, b \in {"open_failed", "no_entry", "entry"}})

\* the adapter calls made before the prompts (faulty variant of enroll_trace)
enroll_trace_adapter_first(validation, prompts, adapter, save) ==
    validation \o adapter \o prompts \o save

\* the order of the phases of enroll_disks
enroll_trace(validation, prompts, adapter, save) ==
    validation \o prompts \o adapter \o save

EnrollOutcome(d, devs, next, paths, p, env) ==
    LET n == Len(paths)
        uuid_opts == [i \in 1..n |-> luks_uuid(devs, paths[i])]
        probes == [i \in 1..n |-> Ev("luks_uuid", i, uuid_opts[i] # NoUuid)]
        v == validate_existing(d, uuid_opts, p.format, p.force_format)
        vsteps == Flatten([i \in 1..(IF v.at = 0 THEN n ELSE v.at) |->
                      validation_steps(d, uuid_opts, p.format, p.force_format, i)])
        not_all == ~p.format /\ count_formatted(uuid_opts) # n
        vids == volume_ids(uuid_opts, p.name, next)
        dups == has_duplicates(vids)
        checks == probes \o vsteps
                    \o (IF v.at = 0 THEN <<Ev("check_all_formatted", 0, ~not_all)>> ELSE <<>>)
                    \o (IF v.at = 0 /\ ~not_all
                        THEN <<Ev("check_duplicates", 0, ~dups)>> ELSE <<>>)
        entries0 == [i \in 1..n |-> entry_from(vids[i], p.entry)]
        fresh == Cardinality({i \in 1..n : uuid_opts[i] = NoUuid})
        old_key == prompt_old_key(env.backup, env.old)
        prompts == IF p.format
                   THEN <<Ev("prompt_new", 1, env.new # NoKey)>>
                   ELSE IF old_key.key = NoKey
                   THEN old_key.steps
                   ELSE old_key.steps \o <<Ev("prompt_new", 1, env.new # NoKey)>>
        keys_ok == env.new # NoKey /\ (p.format \/ old_key.key # NoKey)
        added == add_key_all(devs, paths, env.new, old_key.key, 1, env.failAt)
        failed == IF p.format THEN env.failAt ELSE added.failed
        devs1 == IF p.format
                 THEN format_all(devs, paths, entries0, env.new, 1, failed, env.stage)
                 ELSE added.dev
        after(i) == IF p.format
                    THEN format_all(devs, SubSeq(paths, 1, i), entries0, env.new, 1,
                                    failed, env.stage)[paths[i]]
                    ELSE add_key_all(devs, SubSeq(paths, 1, i), env.new, old_key.key, 1,
                                     env.failAt).dev[paths[i]]
        calls == [i \in 1..(IF failed = 0 THEN n ELSE failed) |->
                     Mutation(IF p.format THEN "format" ELSE "add_key", i, i # failed,
                              after(i))]
        entries == IF p.format
                   THEN [i \in 1..n |-> format_container_entry(entries0[i], p.luks)]
                   ELSE entries0
        extended == [d EXCEPT !.entries = @ \o entries]
        out(err, uuid, tr, d1, f1, dv1, nx1, es) ==
            [res |-> Result(err, uuid, NoName, es, <<>>), trace |-> tr,
             db |-> d1, file |-> f1, dev |-> dv1, next |-> nx1]
    IN  CASE v.at # 0 ->
               out(v.err, v.uuid, checks, d, FileOf(d), devs, next, <<>>)
          [] v.at = 0 /\ not_all ->
               out("NotAllDisksAlreadyFormatted", NoUuid, checks, d, FileOf(d), devs, next, <<>>)
          [] v.at = 0 /\ ~not_all /\ dups ->
               out("DiskIdDuplicatesFound", NoUuid, checks, d, FileOf(d), devs, next, <<>>)
          [] v.at = 0 /\ ~not_all /\ ~dups /\ ~keys_ok ->
               out(IF ~p.format /\ env.backup = "open_failed"
                   THEN "DatabaseError" ELSE "KeyInputError", NoUuid, enroll_trace(checks, prompts, <<>>, <<>>),
                   d, FileOf(d), devs, next, <<>>)
          [] v.at = 0 /\ ~not_all /\ ~dups /\ keys_ok /\ failed # 0 ->
               out("DeviceError", NoUuid, enroll_trace(checks, prompts, calls, <<>>),
                   d, FileOf(d), devs1, next + fresh, <<>>)
          [] OTHER ->
               out(IF env.save = "ok" THEN "Ok" ELSE "DatabaseError", NoUuid,
                   enroll_trace(checks, prompts, calls, <<Ev("save", 0, env.save = "ok")>>),
                   extended, save_to(FileOf(d), extended, env.save), devs1,
                   next + fresh, IF env.save = "ok" THEN entries ELSE <<>>)

\* a caller of enroll_disks: open_db, then enroll_disks on the database read
Enroll(paths, p, env) ==
    LET o == EnrollOutcome(file.db, dev, nextUuid, paths, p, env)
        fresh == Cardinality({i \in DOMAIN paths : luks_uuid(dev, paths[i]) = NoUuid})
    IN  /\ Len(file.db.entries) + Len(paths) <= MaxEntries
        /\ nextUuid + fresh <= MaxUuid + 1
        /\ Begin([NoCall EXCEPT !.op = "enroll", !.paths = paths, !.format = p.format,
                                !.force_format = p.force_format, !.name = p.name,
                                !.entry = p.entry, !.luks = p.luks,
                                !.backup = env.backup])
        /\ IF open_at_err(file) # "Ok"
           THEN /\ res' = Result("DatabaseError", NoUuid, NoName, <<>>, <<>>)
                /\ trace' = <<>>
                /\ UNCHANGED <<file, db, dev, nextUuid>>
           ELSE /\ res' = o.res
                /\ trace' = o.trace
                /\ db' = o.db
                /\ file' = o.file
                /\ dev' = o.dev
                /\ nextUuid' = o.next
        /\ UNCHANGED active

\* DiskEnrolmentParams; luks is the header version of format_params, which
\* only a format reads
EnrolmentParams ==
    {p \in [name : NameOpts, entry : {"Passphrase", "Keyfile"}, format : BOOLEAN,
            force_format : BOOLEAN, luks : {1, 2}] : p.luks = 2 => p.format}

(* ---------------------------------------------------------------------- *)
(* context.rs: activate, activate_with_key, open_disks                     *)
(* ---------------------------------------------------------------------- *)

\* the entry's name preferred to the override (faulty variant of
\* DeviceMapperName)
DeviceMapperName_entry_first(name_override, entry) ==
    IF entry.volume_id.name # NoName THEN entry.volume_id.name
    ELSE IF name_override # NoName THEN name_override
    ELSE "uuid_" \o UuidString(entry.volume_id.uuid)

\* activate_with_key: name_override.or(entry name).unwrap_or("uuid_<uuid>")
DeviceMapperName(name_override, entry) ==
    IF name_override # NoName THEN name_override
    ELSE IF entry.volume_id.name # NoName THEN entry.volume_id.name
    ELSE "uuid_" \o UuidString(entry.volume_id.uuid)

\* open_disks, several devices: name_override.map(|name| format!("{}_{}", name, idx))
indexed_override(name_override, idx) ==
    IF name_override = NoName THEN NoName
    ELSE name_override \o "_" \o ToString(idx)

\* luks_activate succeeds when the key opens a keyslot of the header
luks_activate_ok(d, key, io_ok) ==
    /\ d.uuid # NoUuid
    /\ key \in d.slots
    /\ io_ok

\* an activation that takes uuid_<uuid> when the name is in use (faulty
\* variant of activate_with_key)
activate_with_key_uuid_fallback(act, d, entry, key, name_override, i, io_ok) ==
    LET first == DeviceMapperName(name_override, entry)
        name == IF first \in act
                THEN "uuid_" \o UuidString(entry.volume_id.uuid) ELSE first
    IN  IF name \in act
        THEN [err |-> "DeviceAlreadyActivated", name |-> name, active |-> act,
              steps |-> <<Ev("is_device_active", i, FALSE)>>]
        ELSE IF luks_activate_ok(d, key, io_ok)
        THEN [err |-> "Ok", name |-> name, active |-> act \cup {name},
              steps |-> <<Ev("is_device_active", i, TRUE), Ev("luks_activate", i, TRUE)>>]
        ELSE [err |-> "DeviceError", name |-> name, active |-> act,
              steps |-> <<Ev("is_device_active", i, TRUE), Ev("luks_activate", i, FALSE)>>]

\* activate_with_key for the path at position i
activate_with_key(act, d, entry, key, name_override, i, io_ok) ==
    LET name == DeviceMapperName(name_override, entry)
    IN  IF name \in act
        THEN [err |-> "DeviceAlreadyActivated", name |-> name, active |-> act,
              steps |-> <<Ev("is_device_active", i, FALSE)>>]
        ELSE IF luks_activate_ok(d, key, io_ok)
        THEN [err |-> "Ok", name |-> name, active |-> act \cup {name},
              steps |-> <<Ev("is_device_active", i, TRUE), Ev("luks_activate", i, TRUE)>>]
        ELSE [err |-> "DeviceError", name |-> name, active |-> act,
              steps |-> <<Ev("is_device_active", i, TRUE), Ev("luks_activate", i, FALSE)>>]

\* a key asked for in front of every activation (faulty variant of
\* activate_each)
RECURSIVE activate_each_prompt_each(_, _, _, _, _, _, _, _)
activate_each_prompt_each(act, devs, paths, entries, key, name_override, i, failAt) ==
    IF i > Len(paths)
    THEN [err |-> "Ok", name |-> NoName, active |-> act, steps |-> <<>>, names |-> <<>>]
    ELSE LET a == activate_with_key(act, devs[paths[i]], entries[i], key,
                                    indexed_override(name_override, i - 1), i, i # failAt)
             rest == activate_each_prompt_each(a.active, devs, paths, entries, key,
                                               name_override, i + 1, failAt)
             asked == <<Ev("prompt", i, TRUE)>> \o a.steps
         IN  IF a.err # "Ok"
             THEN [err |-> a.err, name |-> a.name, active |-> a.active,
                   steps |-> asked, names |-> <<>>]
             ELSE [rest EXCEPT !.steps = asked \o @, !.names = <<a.name>> \o @]

\* every device of the batch tried, the first error returned at the end
\* (faulty variant of activate_each)
RECURSIVE activate_each_try_all(_, _, _, _, _, _, _, _)
activate_each_try_all(act, devs, paths, entries, key, name_override, i, failAt) ==
    IF i > Len(paths)
    THEN [err |-> "Ok", name |-> NoName, active |-> act, steps |-> <<>>, names |-> <<>>]
    ELSE LET a == activate_with_key(act, devs[paths[i]], entries[i], key,
                                    indexed_override(name_override, i - 1), i, i # failAt)
             rest == activate_each_try_all(a.active, devs, paths, entries, key,
                                           name_override, i + 1, failAt)
         IN  IF a.err # "Ok"
             THEN [err |-> a.err, name |-> a.name, active |-> rest.active,
                   steps |-> a.steps \o rest.steps, names |-> <<>>]
             ELSE [rest EXCEPT !.steps = a.steps \o @, !.names = <<a.name>> \o @]

\* the map over the entries of a batch of several devices, collected into
\* a Result: positions i..Len(paths), stopping at the first error
RECURSIVE activate_each(_, _, _, _, _, _, _, _)
activate_each(act, devs, paths, entries, key, name_override, i, failAt) ==
    IF i > Len(paths)
    THEN [err |-> "Ok", name |-> NoName, active |-> act, steps |-> <<>>, names |-> <<>>]
    ELSE LET a == activate_with_key(act, devs[paths[i]], entries[i], key,
                                    indexed_override(name_override, i - 1), i, i # failAt)
             rest == activate_each(a.active, devs, paths, entries, key, name_override,
                                   i + 1, failAt)
         IN  IF a.err # "Ok"
             THEN [err |-> a.err, name |-> a.name, active |-> a.active,
                   steps |-> a.steps, names |-> <<>>]
             ELSE [rest EXCEPT !.steps = a.steps \o @, !.names = <<a.name>> \o @]

\* what happens around an open_disks call: the key the prompt returns
\* (NoKey: the prompt fails) and the position of the luks_activate call that
\* fails for a reason of its own (0: none)
OpenEnvs(n) == [key : Keys \cup {NoKey}, failAt : 0..n]

OpenOutcome(d, devs, act, paths, name_override, env) ==
    LET n == Len(paths)
        uuids == [i \in 1..n |-> luks_uuid(devs, paths[i])]
        unreadable == {i \in 1..n : uuids[i] = NoUuid}
        lastProbe == IF unreadable = {} THEN n ELSE Min(unreadable)
        probes == [i \in 1..lastProbe |-> Ev("luks_uuid", i, uuids[i] # NoUuid)]
        dups == n # Cardinality(Range(uuids))
        missing == {i \in 1..n : ~entry_exists(d, uuids[i])}
        lastFind == IF missing = {} THEN n ELSE Min(missing)
        finds == [i \in 1..lastFind |-> Ev("find_entry", i, entry_exists(d, uuids[i]))]
        checks == probes \o <<Ev("check_duplicates", 0, ~dups)>>
        entries == [i \in 1..n |-> d.entries[find_entry_idx(d, uuids[i])]]
        prompt == <<Ev("prompt", 1, env.key # NoKey)>>
        single == activate_with_key(act, devs[paths[1]], entries[1], env.key,
                                    name_override, 1, env.failAt # 1)
        each == activate_each(act, devs, paths, entries, env.key, name_override, 1,
                              env.failAt)
        a == IF n = 1
             THEN [err |-> single.err, name |-> single.name, active |-> single.active,
                   steps |-> single.steps,
                   names |-> IF single.err = "Ok" THEN <<single.name>> ELSE <<>>]
             ELSE each
        out(err, uuid, name, names, tr, act1) ==
            [res |-> Result(err, uuid, name, <<>>, names), trace |-> tr, active |-> act1]
    IN  CASE unreadable # {} ->
               out("DeviceError", NoUuid, NoName, <<>>, probes, act)
          [] unreadable = {} /\ dups ->
               out("DiskIdDuplicatesFound", NoUuid, NoName, <<>>, checks, act)
          [] unreadable = {} /\ ~dups /\ missing # {} ->
               out("DiskEntryNotFound", uuids[lastFind], NoName, <<>>, checks \o finds, act)
          [] unreadable = {} /\ ~dups /\ missing = {} /\ env.key = NoKey ->
               out("KeyInputError", NoUuid, NoName, <<>>, checks \o finds \o prompt, act)
          [] OTHER ->
               out(a.err, NoUuid, IF a.err = "Ok" THEN NoName ELSE a.name,
                   IF a.err = "Ok" THEN a.names ELSE <<>>,
                   checks \o finds \o prompt \o a.steps, a.active)

\* is_active: entry name .or(name_override), looked up among the active
\* mappings; false when there is neither
is_active(act, entry, name_override) ==
    LET name_opt == IF entry.volume_id.name # NoName
                    THEN entry.volume_id.name ELSE name_override
    IN  IF name_opt # NoName THEN name_opt \in act ELSE FALSE

\* peroxs open: open_db, then open_disks on the database read
Open(paths, name_override, env) ==
    LET o == OpenOutcome(file.db, dev, active, paths, name_override, env)
    IN  /\ Begin([NoCall EXCEPT !.op = "open", !.paths = paths,
                                !.name_override = name_override])
        /\ IF open_at_err(file) # "Ok"
           THEN /\ res' = Result("DatabaseError", NoUuid, NoName, <<>>, <<>>)
                /\ trace' = <<>>
                /\ UNCHANGED <<db, active>>
           ELSE /\ res' = o.res
                /\ trace' = o.trace
                /\ db' = file.db
                /\ active' = o.active
        /\ UNCHANGED <<file, dev, nextUuid>>

\* the process ends: what it held in memory is gone; the database file, the
\* devices and the mappings stay
Exit ==
    /\ call.op # "none"
    /\ call' = NoCall
    /\ db' = PeroxideDb_new("Operation")
    /\ pre' = Snapshot
    /\ trace' = <<>>
    /\ res' = Result("Ok", NoUuid, NoName, <<>>, <<>>)
    /\ UNCHANGED <<file, dev, active, nextUuid, ops>>
    /\ UNCHANGED <<codec, tty, kf, mem, yk, ffi>>

Next ==
    \/ Exit
    \/ CanRun /\ \E t \in DbTypes, s \in SaveOutcomes : NewDb(t, s)
    \/ CanRun /\ \E paths \in Batches, p \in EnrolmentParams :
          \E env \in EnrollEnvs(Len(paths), p.format, p.luks) : Enroll(paths, p, env)
    \/ CanRun /\ \E paths \in Batches, t \in {"Passphrase", "Keyfile", "Yubikey"}, name \in NameOpts, s \in SaveOutcomes :
          Register(paths, t, name, s)
    \/ CanRun /\ \E paths \in Batches, name_override \in OverrideOpts :
          \E env \in OpenEnvs(Len(paths)) : Open(paths, name_override, env)

Spec == Init /\ [][Next]_vars

(* ---------------------------------------------------------------------- *)
(* peroxs enroll (bin/peroxs/operation/enroll.rs)                          *)
(* ---------------------------------------------------------------------- *)

\* make_entry for one path: a header on a device to be formatted, or none on
\* a device to be enrolled as it is, is a ValidationFailed; else the entry
\* with VolumeId::new(params.name, uuid), the uuid fresh for a new container
make_entry(uuid_opt, name, entry_type, new_container, fresh) ==
    IF (uuid_opt # NoUuid /\ new_container) \/ (uuid_opt = NoUuid /\ ~new_container)
    THEN [err |-> "ValidationError", entry |-> PassphraseEntry(VolumeId_of(NoName, NoUuid))]
    ELSE [err |-> "Ok",
          entry |-> entry_from(VolumeId_of(name, IF new_container THEN fresh ELSE uuid_opt),
                               entry_type)]

\* operation::enroll::enroll, the handler of `peroxs enroll` (main.rs:388).
\* db.find_entry_for_disk_path is not part of this tree; it is taken as the
\* entry with the uuid of the header of the path.  env as for enroll_disks;
\* a backup database without an entry for the batch hands over to enroll_all.
EnrollCommand(paths, p, env) ==
    LET d == file.db
        n == Len(paths)
        uuid_opts == [i \in 1..n |-> luks_uuid(dev, paths[i])]
        made == [i \in 1..n |->
                    IF uuid_opts[i] # NoUuid /\ entry_exists(d, uuid_opts[i])
                    THEN [make_entry(uuid_opts[i], p.name, p.entry, p.format, nextUuid)
                             EXCEPT !.err = "ValidationError"]
                    ELSE make_entry(uuid_opts[i], p.name, p.entry, p.format,
                                    nextUuid + i - 1)]
        bad == {i \in 1..n : made[i].err # "Ok"}
        candidate_entries == [i \in 1..n |-> made[i].entry]
        probes == [i \in 1..(IF bad = {} THEN n ELSE Min(bad)) |->
                      Ev("make_entry", i, made[i].err = "Ok")]
        dups == has_duplicates([i \in 1..n |-> candidate_entries[i].volume_id])
        checks == probes \o (IF bad = {} THEN <<Ev("check_duplicates", 0, ~dups)>> ELSE <<>>)
        with_backup == ~p.format /\ env.backup = "entry"
        prompts == CASE p.format -> <<Ev("prompt_new", 1, env.new # NoKey)>>
                     [] ~p.format /\ env.backup = "open_failed" ->
                          <<Ev("open_backup", 1, FALSE)>>
                     [] OTHER ->
                          <<Ev(IF with_backup THEN "prompt_backup" ELSE "prompt_old", 1,
                               env.old # NoKey)>>
                          \o (IF env.old # NoKey
                              THEN <<Ev("prompt_new", 1, env.new # NoKey)>> ELSE <<>>)
        keys_ok == /\ env.new # NoKey
                   /\ p.format \/ (env.old # NoKey /\ env.backup # "open_failed")
        added == add_key_all(dev, paths, env.new, env.old, 1, env.failAt)
        failed == IF p.format THEN env.failAt ELSE added.failed
        devs1 == IF p.format
                 THEN format_all(dev, paths, candidate_entries, env.new, 1, failed, env.stage)
                 ELSE added.dev
        after(i) == IF p.format
                    THEN format_all(dev, SubSeq(paths, 1, i), candidate_entries, env.new, 1,
                                    failed, env.stage)[paths[i]]
                    ELSE add_key_all(dev, SubSeq(paths, 1, i), env.new, env.old, 1,
                                     env.failAt).dev[paths[i]]
        calls == [i \in 1..(IF failed = 0 THEN n ELSE failed) |->
                     Mutation(IF p.format THEN "format" ELSE "add_key", i, i # failed,
                              after(i))]
        extended == [d EXCEPT !.entries = @ \o candidate_entries]
        fresh == IF p.format THEN n ELSE 0
        stop(err, tr) ==
            /\ res' = Result(err, NoUuid, NoName, <<>>, <<>>)
            /\ trace' = tr
            /\ db' = d
            /\ UNCHANGED <<file, dev, nextUuid>>
    IN  /\ Len(file.db.entries) + Len(paths) <= MaxEntries
        /\ nextUuid + fresh <= MaxUuid + 1
        /\ Begin([NoCall EXCEPT !.op = "enroll_cmd", !.paths = paths, !.format = p.format,
                                !.name = p.name, !.entry = p.entry,
                                !.backup = env.backup])
        /\ CASE open_at_err(file) # "Ok" ->
                  /\ res' = Result("DatabaseError", NoUuid, NoName, <<>>, <<>>)
                  /\ trace' = <<>>
                  /\ UNCHANGED <<file, db, dev, nextUuid>>
             [] open_at_err(file) = "Ok" /\ (bad # {} \/ dups) ->
                  stop("ValidationError", checks)
             [] open_at_err(file) = "Ok" /\ bad = {} /\ ~dups /\ ~keys_ok ->
                  stop(IF ~p.format /\ env.backup = "open_failed"
                       THEN "DatabaseError" ELSE "KeyInputError",
                       enroll_trace(checks, prompts, <<>>, <<>>))
             [] open_at_err(file) = "Ok" /\ bad = {} /\ ~dups /\ keys_ok /\ failed # 0 ->
                  /\ res' = Result("DeviceError", NoUuid, NoName, <<>>, <<>>)
                  /\ trace' = enroll_trace(checks, prompts, calls, <<>>)
                  /\ db' = d
                  /\ dev' = devs1
                  /\ nextUuid' = nextUuid + fresh
                  /\ UNCHANGED file
             [] OTHER ->
                  /\ res' = Result(IF env.save = "ok" THEN "Ok" ELSE "DatabaseError",
                                   NoUuid, NoName,
                                   IF env.save = "ok" THEN candidate_entries ELSE <<>>, <<>>)
                  /\ trace' = enroll_trace(checks, prompts, calls,
                                           <<Ev("save", 0, env.save = "ok")>>)
                  /\ db' = extended
                  /\ file' = save_to(file, extended, env.save)
                  /\ dev' = devs1
                  /\ nextUuid' = nextUuid + fresh
        /\ UNCHANGED active

\* runs of `peroxs enroll` on what `peroxs init` and other programs left
EnrollCommandNext ==
    \/ Exit
    \/ CanRun /\ \E t \in DbTypes, s \in SaveOutcomes : NewDb(t, s)
    \/ CanRun /\ \E paths \in Batches,
                    p \in {q \in EnrolmentParams : q.luks = 1 /\ ~q.force_format} :
          \E env \in EnrollEnvs(Len(paths), p.format, p.luks) : EnrollCommand(paths, p, env)

EnrollCommandSpec == Init /\ [][EnrollCommandNext]_vars

(* ---------------------------------------------------------------------- *)
(* db.rs: the JSON encoding of a database                                  *)
(* ---------------------------------------------------------------------- *)

MaxVersion == 2
MaxCodecEntries == 2

\* JSON values; an object is the sequence of its <<key, value>> members in
\* the order they are written
JStr(s) == [t |-> "str", s |-> s]
JNum(n) == [t |-> "num", n |-> n]
JObj(f) == [t |-> "obj", f |-> f]

HasField(j, k) == \E i \in DOMAIN j.f : j.f[i][1] = k

Field(j, k) == j.f[CHOOSE i \in DOMAIN j.f : j.f[i][1] = k][2]

\* Uuid::from_str on what hyphenated().to_string() wrote: the uuids whose
\* text is s
CodecUuids == 1..2

parse_str(s) == {u \in CodecUuids : UuidString(u) = s}

YubikeyEntryTypes == {"ChallengeResponse", "HybridChallengeResponse"}

\* #[derive(Serialize)] for VolumeId: name, id, and luks2_token_id skipped
\* when it is None
VolumeId_serialize(v) ==
    JObj(<< <<"name", IF v.name = NoName THEN [t |-> "null"] ELSE JStr(v.name)>>,
            <<"id", JObj(<< <<"uuid", JStr(UuidString(v.uuid))>> >>)>> >>
         \o (IF v.luks2_token_id = NoToken
             THEN <<>>
             ELSE << <<"luks2_token_id", JNum(v.luks2_token_id)>> >>))

\* #[derive(Serialize)] for DbEntry: the variant name wraps the fields
DbEntry_serialize(e) ==
    CASE e.kind = "Keyfile" ->
            JObj(<< <<"KeyfileEntry",
                      JObj(<< <<"key_file", JStr(e.key_file)>>,
                              <<"volume_id", VolumeId_serialize(e.volume_id)>> >>)>> >>)
      [] e.kind = "Passphrase" ->
            JObj(<< <<"PassphraseEntry",
                      JObj(<< <<"volume_id", VolumeId_serialize(e.volume_id)>> >>)>> >>)
      [] OTHER ->
            JObj(<< <<"YubikeyEntry",
                      JObj(<< <<"entry_type", JStr(e.entry_type)>>,
                              <<"slot", JNum(e.slot)>>,
                              <<"volume_id", VolumeId_serialize(e.volume_id)>> >>)>> >>)

\* PeroxideDb::save: serde_json::to_writer of entries, db_type, version
save(d) ==
    JObj(<< <<"entries", [t |-> "arr", a |-> [i \in DOMAIN d.entries |-> DbEntry_serialize(d.entries[i])]]>>,
            <<"db_type", JStr(d.db_type)>>,
            <<"version", JNum(d.version)>> >>)

\* Option<T>: a missing member or null is None
OptionalOk(j, k, t) == HasField(j, k) => Field(j, k).t \in {"null", t}

\* #[derive(Deserialize)] for VolumeId: what makes the object acceptable
VolumeId_deserialize_ok(j) ==
    /\ j.t = "obj"
    /\ OptionalOk(j, "name", "str")
    /\ HasField(j, "id") /\ Field(j, "id").t = "obj"
    /\ HasField(Field(j, "id"), "uuid") /\ Field(Field(j, "id"), "uuid").t = "str"
    /\ parse_str(Field(Field(j, "id"), "uuid").s) # {}
    /\ OptionalOk(j, "luks2_token_id", "num")

\* a reader that takes a missing luks2_token_id for token 0 (faulty variant
\* of VolumeId_deserialize)
VolumeId_deserialize_token_zero(j) ==
    [name |-> IF HasField(j, "name") /\ Field(j, "name").t = "str"
              THEN Field(j, "name").s ELSE NoName,
     uuid |-> CHOOSE u \in parse_str(Field(Field(j, "id"), "uuid").s) : TRUE,
     luks2_token_id |-> IF HasField(j, "luks2_token_id") /\ Field(j, "luks2_token_id").t = "num"
                        THEN Field(j, "luks2_token_id").n ELSE 0]

\* #[derive(Deserialize)] for VolumeId; #[serde(default)] makes a missing
\* luks2_token_id None
VolumeId_deserialize(j) ==
    [name |-> IF HasField(j, "name") /\ Field(j, "name").t = "str"
              THEN Field(j, "name").s ELSE NoName,
     uuid |-> CHOOSE u \in parse_str(Field(Field(j, "id"), "uuid").s) : TRUE,
     luks2_token_id |-> IF HasField(j, "luks2_token_id") /\ Field(j, "luks2_token_id").t = "num"
                        THEN Field(j, "luks2_token_id").n ELSE NoToken]

Variant(j) == j.f[1][1]
Content(j) == j.f[1][2]

RequiredOk(j, k, t) == HasField(j, k) /\ Field(j, k).t = t

DbEntry_deserialize_ok(j) ==
    /\ j.t = "obj" /\ Len(j.f) = 1 /\ Content(j).t = "obj"
    /\ RequiredOk(Content(j), "volume_id", "obj")
    /\ VolumeId_deserialize_ok(Field(Content(j), "volume_id"))
    /\ CASE Variant(j) = "KeyfileEntry" -> RequiredOk(Content(j), "key_file", "str")
         [] Variant(j) = "PassphraseEntry" -> TRUE
         [] Variant(j) = "YubikeyEntry" ->
                /\ RequiredOk(Content(j), "entry_type", "str")
                /\ Field(Content(j), "entry_type").s \in YubikeyEntryTypes
                /\ RequiredOk(Content(j), "slot", "num")
                /\ Field(Content(j), "slot").n \in 0..255
         [] OTHER -> FALSE

DbEntry_deserialize(j) ==
    LET volume_id == VolumeId_deserialize(Field(Content(j), "volume_id"))
    IN  CASE Variant(j) = "KeyfileEntry" ->
                KeyfileEntry(Field(Content(j), "key_file").s, volume_id)
          [] Variant(j) = "PassphraseEntry" -> PassphraseEntry(volume_id)
          [] OTHER -> YubikeyEntry(Field(Content(j), "entry_type").s,
                                   Field(Content(j), "slot").n, volume_id)

PeroxideDb_deserialize_ok(j) ==
    /\ j.t = "obj"
    /\ RequiredOk(j, "entries", "arr")
    /\ \A i \in DOMAIN Field(j, "entries").a : DbEntry_deserialize_ok(Field(j, "entries").a[i])
    /\ RequiredOk(j, "db_type", "str") /\ Field(j, "db_type").s \in DbTypes
    /\ RequiredOk(j, "version", "num") /\ Field(j, "version").n \in 0..65535

\* PeroxideDb::open: serde_json::de::from_reader, and nothing else
open(j) ==
    IF PeroxideDb_deserialize_ok(j)
    THEN [err |-> "Ok",
          value |-> << [entries |-> [i \in DOMAIN Field(j, "entries").a |->
                                       DbEntry_deserialize(Field(j, "entries").a[i])],
                        db_type |-> Field(j, "db_type").s,
                        version |-> Field(j, "version").n] >>]
    ELSE [err |-> "SerialisationError", value |-> <<>>]

\* the databases that are saved and opened
CodecDbs ==
    LET vids == {[name |-> n, uuid |-> u, luks2_token_id |-> t] :
                    n \in NameOpts, u \in CodecUuids, t \in {NoToken, 42}}
        made == {PassphraseEntry(v) : v \in vids}
                \cup {KeyfileEntry(KeyfilePath, v) : v \in vids}
                \cup {YubikeyEntry("ChallengeResponse", 1, v) : v \in vids}
                \cup {YubikeyEntry("HybridChallengeResponse", 2, v) : v \in vids}
    IN  {[entries |-> es, db_type |-> t, version |-> ver] :
            es \in UNION {[1..n -> made] : n \in 0..MaxCodecEntries},
            t \in DbTypes, ver \in 1..MaxVersion}

Idle ==
    /\ file = NoFile
    /\ db = PeroxideDb_new("Operation")
    /\ dev = [d \in Devices |-> BlankDevice]
    /\ active = {}
    /\ nextUuid = NumDevices + 1
    /\ call = NoCall
    /\ pre = Snapshot
    /\ trace = <<>>
    /\ res = Result("Ok", NoUuid, NoName, <<>>, <<>>)
    /\ ops = 0

CodecInit ==
    /\ Idle
    /\ tty = TtyIdle /\ kf = KfIdle /\ mem = MemIdle /\ yk = YkIdle /\ ffi = FfiIdle
    /\ codec \in {[CodecIdle EXCEPT !.db = d] : d \in CodecDbs}

CodecSave ==
    /\ codec.doc = <<>>
    /\ codec' = [codec EXCEPT !.doc = <<save(codec.db)>>]
    /\ UNCHANGED <<program, ffi, tty, kf, mem, yk>>

CodecOpen ==
    /\ codec.doc # <<>>
    /\ codec.opened = <<>>
    /\ codec' = [codec EXCEPT !.opened = <<open(codec.doc[1])>>]
    /\ UNCHANGED <<program, ffi, tty, kf, mem, yk>>

CodecNext == CodecSave \/ CodecOpen

CodecSpec == CodecInit /\ [][CodecNext]_vars

(* ---------------------------------------------------------------------- *)
(* ttypass/src/lib.rs and io.rs: the terminal passphrase prompt            *)
(* ---------------------------------------------------------------------- *)

MaxPrompts == 2

TtyStep(ev, ok) == [ev |-> ev, ok |-> ok]

\* the system calls of one prompt: the call that fails (if any), whether a
\* timeout is given, what select reports, whether the read succeeds, the
\* bytes of the line typed and whether a newline ends it
TtyEnv(fail, timeout, select, read_ok, bytes, nl) ==
    [fail |-> fail, timeout |-> timeout, select |-> select, read_ok |-> read_ok,
     bytes |-> bytes, nl |-> nl]

\* one environment for each distinguishable course of the calls
TtyEnvs ==
    LET reads == {TtyEnv("none", t, s, r, b, nl) :
                     t \in BOOLEAN, s \in {"ready", "timeout", "error"}, r \in BOOLEAN,
                     b \in {<<>>, <<1>>, <<1, 2>>}, nl \in BOOLEAN}
    IN  {TtyEnv(f, FALSE, "ready", TRUE, <<1>>, TRUE) :
            f \in {"isatty", "from_fd", "write", "echo_off"}}
        \cup {[e EXCEPT !.fail = f] : e \in
                {e \in reads :
                    /\ ~e.timeout => e.select = "ready"
                    /\ e.select # "ready" => e.read_ok /\ e.bytes = <<>> /\ e.nl
                    /\ ~e.read_ok => e.bytes = <<>> /\ e.nl},
              f \in {"none", "reset", "newline"}}

TtyResult(steps, mode, err, key) ==
    [steps |-> steps, mode |-> mode, err |-> err, key |-> key]

\* ttypass: read_stdin
read_stdin(env) ==
    CASE ~env.read_ok -> [err |-> "IoError", key |-> <<>>]
      [] env.nl -> [err |-> "Ok", key |-> env.bytes]
      [] OTHER -> [err |-> "UnexpectedEof", key |-> <<>>]

\* ttypass: read_with_timeout (select is retried on EINTR)
read_with_timeout(env) ==
    CASE env.select = "error" -> [err |-> "IoError", key |-> <<>>]
      [] env.select = "timeout" -> [err |-> "TimedOut", key |-> <<>>]
      [] OTHER -> read_stdin(env)

\* ttypass: read_password
read_password(mode, env) ==
    LET term_orig == mode
        term_prompt == Termios(FALSE, TRUE)
        password_res == IF env.timeout THEN read_with_timeout(env) ELSE read_stdin(env)
        probe == <<TtyStep("isatty", TRUE), TtyStep("from_fd", TRUE)>>
        read == TtyStep("read", password_res.err = "Ok")
    IN  CASE env.fail = "isatty" ->
                TtyResult(<<TtyStep("isatty", FALSE)>>, mode, "BrokenPipe", <<>>)
          [] env.fail = "from_fd" ->
                TtyResult(<<TtyStep("isatty", TRUE), TtyStep("from_fd", FALSE)>>,
                          mode, "IoError", <<>>)
          [] env.fail = "write" ->
                TtyResult(probe \o <<TtyStep("write", FALSE)>>, mode, "IoError", <<>>)
          [] env.fail = "echo_off" ->
                TtyResult(probe \o <<TtyStep("write", TRUE), TtyStep("echo_off", FALSE)>>,
                          mode, "IoError", <<>>)
          [] env.fail = "reset" ->
                TtyResult(probe \o <<TtyStep("write", TRUE), TtyStep("echo_off", TRUE),
                                     read, TtyStep("reset", FALSE)>>,
                          term_prompt, "IoError", <<>>)
          [] OTHER ->
                TtyResult(probe \o <<TtyStep("write", TRUE), TtyStep("echo_off", TRUE),
                                     read, TtyStep("reset", TRUE)>>,
                          term_orig, password_res.err, password_res.key)

\* io.rs: TerminalPrompt::read_passphrase; the last byte read is dropped
read_passphrase(env) ==
    LET buf == env.bytes \o (IF env.nl THEN <<0>> ELSE <<>>)
    IN  CASE ~env.read_ok -> [err |-> "IoError", key |-> <<>>]
          [] Len(buf) = 0 -> [err |-> "Other", key |-> <<>>]
          [] OTHER -> [err |-> "Ok", key |-> SubSeq(buf, 1, Len(buf) - 1)]

\* io.rs: TerminalPrompt::read_passphrase_timeout
read_passphrase_timeout(env) ==
    IF env.timeout
    THEN IF env.select = "ready"
         THEN read_passphrase(env)
         ELSE [err |-> "TimedOut", key |-> <<>>]
    ELSE read_passphrase(env)

\* io.rs: TerminalPrompt::prompt_passphrase
prompt_passphrase(mode, env) ==
    LET orig_termios == mode
        prompt_termios == [mode EXCEPT !.echo = FALSE]
        key == read_passphrase_timeout(env)
        opened == <<TtyStep("open_tty", TRUE), TtyStep("from_fd", TRUE)>>
        read == TtyStep("read", key.err = "Ok")
    IN  CASE env.fail = "isatty" ->
                TtyResult(<<TtyStep("open_tty", FALSE)>>, mode, "IoError", <<>>)
          [] env.fail = "from_fd" ->
                TtyResult(<<TtyStep("open_tty", TRUE), TtyStep("from_fd", FALSE)>>,
                          mode, "IoError", <<>>)
          [] env.fail = "write" ->
                TtyResult(opened \o <<TtyStep("write", FALSE)>>, mode, "IoError", <<>>)
          [] env.fail = "echo_off" ->
                TtyResult(opened \o <<TtyStep("write", TRUE), TtyStep("echo_off", FALSE)>>,
                          mode, "IoError", <<>>)
          [] key.err # "Ok" ->
                TtyResult(opened \o <<TtyStep("write", TRUE), TtyStep("echo_off", TRUE), read>>,
                          prompt_termios, key.err, <<>>)
          [] env.fail = "reset" ->
                TtyResult(opened \o <<TtyStep("write", TRUE), TtyStep("echo_off", TRUE),
                                      read, TtyStep("reset", FALSE)>>,
                          prompt_termios, "IoError", <<>>)
          [] env.fail = "newline" ->
                TtyResult(opened \o <<TtyStep("write", TRUE), TtyStep("echo_off", TRUE),
                                      read, TtyStep("reset", TRUE), TtyStep("newline", FALSE)>>,
                          orig_termios, "IoError", <<>>)
          [] OTHER ->
                TtyResult(opened \o <<TtyStep("write", TRUE), TtyStep("echo_off", TRUE),
                                      read, TtyStep("reset", TRUE), TtyStep("newline", TRUE)>>,
                          orig_termios, "Ok", key.key)

Prompted(name, r) ==
    /\ tty.prompts < MaxPrompts
    /\ tty' = [mode |-> r.mode, before |-> tty.mode, prompt |-> name, steps |-> r.steps,
               err |-> r.err, key |-> r.key, prompts |-> tty.prompts + 1]
    /\ UNCHANGED <<program, ffi, codec, kf, mem, yk>>

\* input/terminal.rs: TerminalPrompt::get_key reads through ttypass
ReadPassword(env) == Prompted("read_password", read_password(tty.mode, env))

PromptPassphrase(env) == Prompted("prompt_passphrase", prompt_passphrase(tty.mode, env))

TtyInit ==
    /\ Idle
    /\ codec = CodecIdle /\ kf = KfIdle /\ mem = MemIdle /\ yk = YkIdle /\ ffi = FfiIdle
    /\ tty \in {[TtyIdle EXCEPT !.mode = Termios(e, nl), !.before = Termios(e, nl)] :
                    e \in BOOLEAN, nl \in BOOLEAN}

TtyNext ==
    \/ \E env \in {e \in TtyEnvs : e.fail # "newline"} : ReadPassword(env)
    \/ \E env \in TtyEnvs : PromptPassphrase(env)

TtySpec == TtyInit /\ [][TtyNext]_vars

(* ---------------------------------------------------------------------- *)
(* input/mod.rs and input/keyfile.rs: the key file                         *)
(* ---------------------------------------------------------------------- *)

MaxReads == 2

\* Path::is_relative
is_relative(p) == p = <<>> \/ p[1] # "/"

\* Path::join: an absolute path replaces the path it is joined to
join(dir, p) == IF is_relative(p) THEN dir \o p ELSE p

\* Path::parent
parent(p) == SubSeq(p, 1, Len(p) - 1)

\* the database file of the context
db_path == DbDir \o <<"peroxs-db.json">>

\* what is at an absolute path after symbolic links are followed
Resolve(fs, p) ==
    CASE p \notin DOMAIN fs -> [path |-> p, node |-> Missing]
      [] fs[p].kind = "link" ->
            IF fs[p].to \in DOMAIN fs /\ fs[fs[p].to].kind = "file"
            THEN [path |-> fs[p].to, node |-> fs[fs[p].to]]
            ELSE [path |-> p, node |-> Missing]
      [] OTHER -> [path |-> p, node |-> fs[p]]

\* Path::canonicalize: a relative path is taken from the current directory
\* of the process; links are followed; a path that names nothing is NotFound
canonicalize(fs, p) ==
    LET r == Resolve(fs, join(CurrentDir, p))
    IN  IF r.node.kind = "missing"
        THEN [err |-> "NotFound", path |-> <<>>]
        ELSE [err |-> "Ok", path |-> r.path]

\* a resolution that leaves a relative path to the current directory of the
\* process (faulty variant of keyfile)
keyfile_from_current_dir(fs, key_path, working_dir) ==
    LET key_file == canonicalize(fs, key_path)
    IN  IF key_file.err = "NotFound"
        THEN [err |-> "FileNotFound", key_file |-> <<>>]
        ELSE [err |-> "Ok", key_file |-> key_file.path]

\* input/mod.rs: keyfile
keyfile(fs, key_path, working_dir) ==
    LET key_file == IF is_relative(key_path)
                    THEN canonicalize(fs, join(working_dir, key_path))
                    ELSE canonicalize(fs, key_path)
    IN  IF key_file.err = "NotFound"
        THEN [err |-> "FileNotFound", key_file |-> <<>>]
        ELSE [err |-> "Ok", key_file |-> key_file.path]

\* input/keyfile.rs: KeyfilePrompt::get_key
KeyfilePrompt_get_key(fs, key_file, io_ok) ==
    LET r == Resolve(fs, key_file)
        key == r.node.bytes
    IN  CASE r.node.kind = "missing" -> [err |-> "FileNotFound", key |-> <<>>]
          [] ~io_ok -> [err |-> "IoError", key |-> <<>>]
          [] Len(key) = 0 -> [err |-> "UnexpectedEof", key |-> <<>>]
          [] OTHER -> [err |-> "Ok", key |-> key]

\* context.rs: activate hands the directory of the database to get_key_for,
\* which makes the key file input and asks it for the key
get_key_for(fs, key_path, io_ok) ==
    LET method == keyfile(fs, key_path, parent(db_path))
    IN  IF method.err # "Ok"
        THEN [err |-> method.err, key |-> <<>>]
        ELSE KeyfilePrompt_get_key(fs, method.key_file, io_ok)

GetKeyfile(key_path, io_ok) ==
    LET r == get_key_for(kf.fs, key_path, io_ok)
    IN  /\ kf.reads < MaxReads
        /\ kf' = [fs |-> kf.fs, key_path |-> key_path, io_ok |-> io_ok, err |-> r.err,
                  key |-> r.key, reads |-> kf.reads + 1]
        /\ UNCHANGED <<program, ffi, codec, tty, mem, yk>>

KeyfileInit ==
    /\ Idle
    /\ codec = CodecIdle /\ tty = TtyIdle /\ mem = MemIdle /\ yk = YkIdle /\ ffi = FfiIdle
    \* the key files differ in content, so that a key tells where it was read
    /\ kf \in {[KfIdle EXCEPT !.fs = fs] : fs \in
            {[p \in KeyFiles |->
                CASE p = DbDir \o <<"k">> -> a
                  [] p = CurrentDir \o <<"k">> -> b
                  [] OTHER -> c] :
                a \in {Missing, RegularFile(<<>>), RegularFile(<<1, 2>>), Symlink(KeysDir \o <<"k">>)},
                b \in {Missing, RegularFile(<<>>), RegularFile(<<3>>)},
                c \in {Missing, RegularFile(<<>>), RegularFile(<<4, 5, 6>>)}}}

KeyfileNext ==
    \E key_path \in {<<"k">>, KeysDir \o <<"k">>, CurrentDir \o <<"k">>}, io_ok \in BOOLEAN :
        GetKeyfile(key_path, io_ok)

KeyfileSpec == KeyfileInit /\ [][KeyfileNext]_vars

(* ---------------------------------------------------------------------- *)
(* io.rs and input/yubikey.rs: the buffers of key material                 *)
(* ---------------------------------------------------------------------- *)

MaxBuffers == 3

SHA1_BLOCK_LENGTH == 64
SHA1_RESPONSE_LENGTH == 20

\* a buffer: who owns it, its bytes, and whether it is still allocated; the
\* bytes of a released buffer are what the next owner of the memory finds
Buffer(of, bytes, live) == [of |-> of, bytes |-> bytes, live |-> live]

Zeroed(bytes) == [i \in DOMAIN bytes |-> 0]

\* the response the token writes: the digest, and the rest of the block
\* left as it was
TokenResponse(d) == [i \in 1..SHA1_BLOCK_LENGTH |-> IF i <= SHA1_RESPONSE_LENGTH THEN d ELSE 0]

Allocated(bufs) ==
    /\ Len(mem) + Len(bufs) <= MaxBuffers
    /\ mem' = mem \o bufs
    /\ UNCHANGED <<program, ffi, codec, tty, kf, yk>>

Released(i, bytes) ==
    /\ mem' = [mem EXCEPT ![i] = Buffer(mem[i].of, bytes, FALSE)]
    /\ UNCHANGED <<program, ffi, codec, tty, kf, yk>>

\* io.rs: KeyWrapper::read
KeyWrapper_read(content) == Allocated(<<Buffer("KeyWrapper", content, TRUE)>>)

\* io.rs: Drop for KeyWrapper does nothing, and Vec frees its memory as it is
KeyWrapper_drop(i) ==
    /\ mem[i].of = "KeyWrapper" /\ mem[i].live
    /\ Released(i, mem[i].bytes)

\* SecStr::new takes the buffer over
SecStr_new(content) == Allocated(<<Buffer("SecStr", content, TRUE)>>)

\* SecStr zeroes its bytes when it is dropped
SecStr_drop(i) ==
    /\ mem[i].of = "SecStr" /\ mem[i].live
    /\ Released(i, Zeroed(mem[i].bytes))

\* input/yubikey.rs: read_challenge_response; the response block is released
\* when the function returns, the key lives on in a SecStr
read_challenge_response(ok, response) ==
    IF ok
    THEN Allocated(<<Buffer("response", Zeroed(response), FALSE),
                     Buffer("SecStr", SubSeq(response, 1, SHA1_RESPONSE_LENGTH), TRUE)>>)
    ELSE Allocated(<<Buffer("response", response, FALSE)>>)

MemInit ==
    /\ Idle
    /\ codec = CodecIdle /\ tty = TtyIdle /\ kf = KfIdle /\ yk = YkIdle /\ ffi = FfiIdle
    /\ mem = MemIdle

MemNext ==
    \/ \E content \in {<<1>>, <<1, 2>>} : KeyWrapper_read(content)
    \/ \E i \in DOMAIN mem : KeyWrapper_drop(i)
    \/ \E content \in {<<1>>, <<1, 2>>} : SecStr_new(content)
    \/ \E i \in DOMAIN mem : SecStr_drop(i)
    \/ \E d \in {1, 2} : read_challenge_response(TRUE, TokenResponse(d))
    \/ \E response \in {TokenResponse(0), [TokenResponse(0) EXCEPT ![1] = 1]} :
          \* a failed challenge-response leaves the block untouched or partly written
          read_challenge_response(FALSE, response)

MemSpec == MemInit /\ [][MemNext]_vars

(* ---------------------------------------------------------------------- *)
(* input/yubikey.rs: the token                                             *)
(* ---------------------------------------------------------------------- *)

MaxDerivations == 2

\* a byte string is a sequence of segments, each a run of bytes out of the
\* value of a term; a term is an input or a function applied to byte strings
Term(fn, args) == [fn |-> fn, args |-> args]

Whole(t, len) == <<[t |-> t, from |-> 1, len |-> len]>>

Input(name, len) == Whole(Term(name, <<>>), len)

RECURSIVE ByteLen(_)
ByteLen(bs) == IF bs = <<>> THEN 0 ELSE Head(bs).len + ByteLen(Tail(bs))

\* bs[0..n]
RECURSIVE Take(_, _)
Take(bs, n) ==
    CASE n = 0 \/ bs = <<>> -> <<>>
      [] Head(bs).len <= n -> <<Head(bs)>> \o Take(Tail(bs), n - Head(bs).len)
      [] OTHER -> <<[Head(bs) EXCEPT !.len = n]>>

\* sodiumoxide: sha256::hash, hmacsha512::authenticate,
\* scryptsalsa208sha256::derive_key into a buffer of len bytes
sha256_hash(m) == Whole(Term("sha256", <<m>>), 32)

hmacsha512_authenticate(m, k) == Whole(Term("hmacsha512", <<k, m>>), 64)

scrypt_derive_key(len, passwd, salt) == Whole(Term("scrypt", <<passwd, salt>>), len)

\* the token: HMAC-SHA1 of the challenge under the secret of the slot,
\* written to the start of the response block
TokenSecret(slot) == Input("secret" \o ToString(slot), 20)

challenge_response(slot, challenge, response) ==
    Whole(Term("hmacsha1", <<TokenSecret(slot), challenge>>), SHA1_RESPONSE_LENGTH)
    \o Take(response, ByteLen(response) - SHA1_RESPONSE_LENGTH)

\* read_challenge_response: the key is response[0..SHA1_RESPONSE_LENGTH]
challenge_response_key(slot, challenge) ==
    LET response == challenge_response(slot, challenge, Input("zero", SHA1_BLOCK_LENGTH))
    IN  Take(response, SHA1_RESPONSE_LENGTH)

\* hybrid: salt_from_uuid
salt_from_uuid(uuid) == sha256_hash(uuid)

\* a derivation that hands the challenge to the token as it was typed
\* (faulty variant of derive_challenge_key)
derive_challenge_key_raw(challenge, uuid) == challenge

\* hybrid: derive_challenge_key
derive_challenge_key(challenge, uuid) ==
    scrypt_derive_key(SHA1_BLOCK_LENGTH, challenge, salt_from_uuid(uuid))

\* hybrid: read_hybrid_challenge_response, after the token answered
hybrid_final_key(response, other_passphrase) ==
    LET response_hash == sha256_hash(response)
    IN  hmacsha512_authenticate(other_passphrase, response_hash)

YkResult(calls, err, key) == [calls |-> calls, err |-> err, key |-> key]

\* YubikeyPrompt::get_key, once the passphrases are read; what can go wrong
\* is the key derivation ("scrypt") or the token ("token")
get_key(entry_type, slot, chal_key, other_key, uuid, fault) ==
    LET sent == IF entry_type = "ChallengeResponse"
                THEN chal_key
                ELSE derive_challenge_key(chal_key, uuid)
        asked == [slot |-> slot, challenge |-> sent]
        response == challenge_response_key(slot, sent)
    IN  CASE entry_type = "HybridChallengeResponse" /\ fault = "scrypt" ->
                YkResult(<<>>, "UnknownCryptoError", <<>>)
          [] fault = "token" -> YkResult(<<asked>>, "YubikeyError", <<>>)
          [] entry_type = "ChallengeResponse" -> YkResult(<<asked>>, "Ok", response)
          [] OTHER -> YkResult(<<asked>>, "Ok", hybrid_final_key(response, other_key))

GetYubikeyKey(entry_type, slot, chal_key, other_key, uuid, fault) ==
    LET r == get_key(entry_type, slot, chal_key, other_key, uuid, fault)
    IN  /\ yk.derived < MaxDerivations
        /\ yk' = [entry_type |-> entry_type, slot |-> slot, chal |-> chal_key,
                  other |-> other_key, uuid |-> uuid, calls |-> r.calls, err |-> r.err,
                  key |-> r.key, derived |-> yk.derived + 1]
        /\ UNCHANGED <<program, ffi, codec, tty, kf, mem>>

YubikeyInit ==
    /\ Idle
    /\ codec = CodecIdle /\ tty = TtyIdle /\ kf = KfIdle /\ mem = MemIdle
    /\ yk = YkIdle /\ ffi = FfiIdle

YubikeyNext ==
    \E entry_type \in YubikeyEntryTypes, slot \in {1, 2},
       chal_key \in {Input("egotistical giraffe", 19), Input("swordfish", 9)},
       other_key \in {Input("happy dance", 11), Input("sad song", 8)},
       uuid \in {Input(UuidString(u), 16) : u \in CodecUuids},
       fault \in {"none", "scrypt", "token"} :
        GetYubikeyKey(entry_type, slot, chal_key, other_key, uuid, fault)

YubikeySpec == YubikeyInit /\ [][YubikeyNext]_vars

(* ---------------------------------------------------------------------- *)
(* ykpers-rs: yk_init and YubikeyDevice::new                               *)
(* ---------------------------------------------------------------------- *)

\* calls of YubikeyDevice::new a thread makes
MaxInitCalls == 2

\* ffi::yk_errno(): what is at _yk_errno_location() for the calling thread
yk_errno(f, t) == f.errno[IF f.tsd THEN t ELSE 0]

\* Error::from_zero_err(res): Ok for a non-zero return code; for zero
\* Error::from(yk_errno()), which is Ok for the error number 0, and the map
\* over that Ok panics
from_zero_err(rc, errno) ==
    CASE rc # 0 -> "Ok"
      [] rc = 0 /\ errno = 0 -> "panic"
      [] rc = 0 /\ errno = YK_EUSBERR -> "UsbError"
      [] OTHER -> "Unknown"

\* a step of thread t in the token library leaves the rest as it is
FfiStep(f) ==
    /\ ffi' = f
    /\ UNCHANGED <<program, codec, tty, kf, mem, yk>>

\* thread t calls YubikeyDevice::new, which calls yk_init
YubikeyDevice_new(t) ==
    /\ ffi.pc[t] = "idle"
    /\ ffi.calls[t] < MaxInitCalls
    /\ FfiStep([ffi EXCEPT !.pc[t] = "call_once", !.calls[t] = @ + 1, !.ret[t] = "none"])

\* FFI_INIT.call_once: the first thread to arrive runs the closure, a thread
\* that arrives while it runs waits, later ones pass
call_once(t) ==
    /\ ffi.pc[t] = "call_once"
    /\ ffi.once # "running"
    /\ FfiStep(IF ffi.once = "new"
               THEN [ffi EXCEPT !.once = "running", !.pc[t] = "closure"]
               ELSE [ffi EXCEPT !.pc[t] = "load"])

\* the closure: ffi::yk_init() returns 1, or 0 with the error number set for
\* the calling thread; the return code is stored in FFI_INIT_RESULT and the
\* Once is complete
ffi_yk_init(t, ok) ==
    /\ ffi.pc[t] = "closure"
    /\ FfiStep([ffi EXCEPT !.runs = @ + 1,
                           !.native = IF ok THEN "Ok" ELSE "UsbError",
                           !.errno[IF ffi.tsd THEN t ELSE 0] = IF ok THEN @ ELSE YK_EUSBERR,
                           !.result = IF ok THEN 1 ELSE 0,
                           !.once = "done",
                           !.pc[t] = "load"])

\* the rest of yk_init: FFI_INIT_RESULT.load, Error::from_zero_err; on Ok
\* YubikeyDevice::new goes on to open the token
yk_init_return(t) ==
    /\ ffi.pc[t] = "load"
    /\ LET r == from_zero_err(ffi.result, yk_errno(ffi, t))
       IN  FfiStep([ffi EXCEPT !.ret[t] = r,
                               !.pc[t] = IF r = "Ok" THEN "open" ELSE "idle"])

\* ffi::yk_open_first_key()
yk_open_first_key(t) ==
    /\ ffi.pc[t] = "open"
    /\ FfiStep([ffi EXCEPT !.pc[t] = "idle"])

FfiInit ==
    /\ Idle
    /\ codec = CodecIdle /\ tty = TtyIdle /\ kf = KfIdle /\ mem = MemIdle
    /\ yk = YkIdle
    /\ ffi \in {[FfiIdle EXCEPT !.tsd = b] : b \in BOOLEAN}

FfiNext ==
    \/ \E t \in 1..NumThreads : YubikeyDevice_new(t)
    \/ \E t \in 1..NumThreads : call_once(t)
    \/ \E t \in 1..NumThreads, ok \in BOOLEAN : ffi_yk_init(t, ok)
    \/ \E t \in 1..NumThreads : yk_init_return(t)
    \/ \E t \in 1..NumThreads : yk_open_first_key(t)

FfiSpec == FfiInit /\ [][FfiNext]_vars

(* ---------------------------------------------------------------------- *)
(* Properties                                                              *)
(* ---------------------------------------------------------------------- *)

\* the last operation was an enroll that got as far as enroll_disks
EnrollCalled == call.op = "enroll" /\ pre.file.st = "ok"

BatchSize == Len(call.paths)

\* the entries of the database file when the last operation started
EntriesBefore == pre.file.db.entries

\* the header uuid of the path at position i when the last operation started
HeaderBefore(i) == pre.dev[call.paths[i]].uuid

HasUuid(entries, uuid) == \E k \in DOMAIN entries : entries[k].volume_id.uuid = uuid

\* positions of the trace holding a step of one of the given kinds
Steps(kinds) == {k \in DOMAIN trace : trace[k].ev \in kinds}

ValidationSteps ==
    {"luks_uuid", "check_entry_exists", "check_already_formatted",
     "check_all_formatted", "check_duplicates"}
PromptSteps ==
    {"prompt_old", "prompt_new", "prompt", "prompt_backup", "backup_find_entry",
     "open_backup"}
MutationSteps == {"format", "add_key"}

NothingTouched == dev = pre.dev /\ file = pre.file /\ active = pre.active

\* C1: every saved database holds no two entries with the same volume uuid,
\* and an enroll or register of a path whose header uuid is already in the
\* database fails with EntryAlreadyExists and adds nothing.
C1_SavedUuidsUnique ==
    /\ file.st = "ok" =>
          \A i, j \in DOMAIN file.db.entries :
              i # j => file.db.entries[i].volume_id.uuid # file.db.entries[j].volume_id.uuid
    /\ (/\ call.op \in {"enroll", "register"}
        /\ pre.file.st = "ok"
        /\ \E i \in 1..BatchSize :
              HeaderBefore(i) # NoUuid /\ HasUuid(EntriesBefore, HeaderBefore(i)))
       => res.err = "EntryAlreadyExists" /\ file = pre.file

\* C2: after enroll_disks on N paths the saved database is the previous
\* entries followed by exactly N new ones, or the database of before; and
\* when a per-device step fails the file is not written.
C2_EnrollAllOrNothing ==
    EnrollCalled =>
        /\ file.st = "ok"
        /\ file.db.db_type = pre.file.db.db_type
        /\ \/ file.db.entries = EntriesBefore
           \/ /\ Len(file.db.entries) = Len(EntriesBefore) + BatchSize
              /\ SubSeq(file.db.entries, 1, Len(EntriesBefore)) = EntriesBefore
        /\ (\E k \in Steps(MutationSteps) : ~trace[k].ok) => file = pre.file

Phase(e) ==
    CASE e.ev \in ValidationSteps -> 1
      [] e.ev \in PromptSteps -> 2
      [] e.ev \in MutationSteps -> 3
      [] OTHER -> 4

C4_HeaderUuidIsEntryUuid ==
    (EnrollCalled /\ call.format /\ res.err = "Ok") =>
        \A i \in 1..BatchSize :
            /\ dev[call.paths[i]].uuid = res.entries[i].volume_id.uuid
            /\ dev[call.paths[i]].uuid =
                  file.db.entries[Len(EntriesBefore) + i].volume_id.uuid

\* C5: enrolling one device whose header uuid has an entry in the database
\* fails with EntryAlreadyExists for that uuid, prompts for no key, makes no
\* format or add-keyslot call, and leaves the database as it was.
C5_DuplicateEnrollRejected ==
    (/\ EnrollCalled
     /\ BatchSize = 1
     /\ HeaderBefore(1) # NoUuid
     /\ HasUuid(EntriesBefore, HeaderBefore(1)))
    => /\ res.err = "EntryAlreadyExists"
       /\ res.uuid = HeaderBefore(1)
       /\ Steps(PromptSteps) = {}
       /\ Steps(MutationSteps) = {}
       /\ NothingTouched
       /\ db = pre.file.db

\* device D was enrolled, D is enrolled again: rejected, one entry
C5_Witness ==
    /\ EnrollCalled
    /\ BatchSize = 1
    /\ HeaderBefore(1) # NoUuid
    /\ HasUuid(EntriesBefore, HeaderBefore(1))
    /\ res.err = "EntryAlreadyExists"
    /\ Len(file.db.entries) = 1

\* positions of the batch whose header uuid has an entry in the database
KnownPaths ==
    {i \in 1..BatchSize :
        HeaderBefore(i) # NoUuid /\ HasUuid(EntriesBefore, HeaderBefore(i))}

\* positions of the batch that carry a header
HeaderPaths == {i \in 1..BatchSize : HeaderBefore(i) # NoUuid}

\* C6 as stated: if the header uuid of any path of the batch is in the
\* database, enroll_disks fails with EntryAlreadyExists for such a uuid and
\* with no other error, whatever the flags and the position of the path.
C6_AlwaysEntryAlreadyExists ==
    (EnrollCalled /\ KnownPaths # {})
    => /\ res.err = "EntryAlreadyExists"
       /\ \E i \in KnownPaths : res.uuid = HeaderBefore(i)

\* C6 amended: if the header uuid of a path of the batch is in the database,
\* enroll_disks fails for the first path the loop rejects: with
\* EntryAlreadyExists for the first known uuid, unless format is set without
\* force_format and an earlier path carries a header, and then with
\* DeviceAlreadyFormatted for the first such header.  Nothing is touched.
C6_FirstRejectedPathDecides ==
    (EnrollCalled /\ KnownPaths # {})
    => LET k == Min(KnownPaths)
           earlier == IF call.format /\ ~call.force_format
                      THEN {j \in HeaderPaths : j < k} ELSE {}
       IN  /\ earlier = {} =>
                 res.err = "EntryAlreadyExists" /\ res.uuid = HeaderBefore(k)
           /\ earlier # {} =>
                 /\ res.err = "DeviceAlreadyFormatted"
                 /\ res.uuid = HeaderBefore(Min(earlier))
           /\ NothingTouched

\* the known uuid is at the second position, behind a header that is not in
\* the database, and the call fails with EntryAlreadyExists
C6_Witness ==
    /\ EnrollCalled
    /\ BatchSize = 2
    /\ KnownPaths = {2}
    /\ HeaderBefore(1) # NoUuid
    /\ res.err = "EntryAlreadyExists"
    /\ res.uuid = HeaderBefore(2)

C8_PartialFailure ==
    EnrollCalled =>
        \A f \in Steps(MutationSteps) :
            ~trace[f].ok =>
                /\ res.err = "DeviceError"
                /\ \A i \in 1..(trace[f].i - 1) :
                      \E m \in Steps(MutationSteps) :
                          /\ trace[m].i = i
                          /\ trace[m].ok
                          /\ dev[call.paths[i]] = trace[m].after
                /\ \A m \in Steps(MutationSteps) : trace[m].i <= trace[f].i
                /\ file = pre.file
                /\ db = pre.file.db

ActivatedSteps == {k \in Steps({"luks_activate"}) : trace[k].ok}

\* C9: when open_disks fails with DeviceAlreadyActivated, no key prompt has
\* been issued.
C9_ActiveCheckBeforePrompt ==
    (call.op = "open" /\ res.err = "DeviceAlreadyActivated") => Steps(PromptSteps) = {}

\* the entry open_disks finds for the path at position i
EntryFound(i) ==
    EntriesBefore[Min({k \in DOMAIN EntriesBefore :
                          EntriesBefore[k].volume_id.uuid = HeaderBefore(i)})]

\* the mapper name for the path at position i
ExpectedMapperName(i) ==
    LET fallback == IF EntryFound(i).volume_id.name # NoName
                    THEN EntryFound(i).volume_id.name
                    ELSE "uuid_" \o UuidString(EntryFound(i).volume_id.uuid)
    IN  CASE call.name_override = NoName -> fallback
          [] call.name_override # NoName /\ BatchSize = 1 -> call.name_override
          [] OTHER -> call.name_override \o "_" \o ToString(i - 1)

AttemptedPaths == {trace[k].i : k \in Steps({"is_device_active"})}

ActivatedPaths == {trace[k].i : k \in ActivatedSteps}

UuidName(i) == "uuid_" \o UuidString(EntryFound(i).volume_id.uuid)

\* the entry's name when it has one, else uuid_<uuid>
NameOrUuidName(i) ==
    IF EntryFound(i).volume_id.name # NoName
    THEN EntryFound(i).volume_id.name ELSE UuidName(i)

\* the mappings active when the path at position i is about to be activated
\* in an open without override
ActiveBefore(i) == pre.active \cup {NameOrUuidName(j) : j \in 1..(i - 1)}

\* C11 as stated: in an open without name override an entry is activated
\* under its name when it has one that no active mapping uses, and under
\* uuid_<uuid> otherwise (no name, or the name is in use).
C11_NameOrUuidFallback ==
    (call.op = "open" /\ call.name_override = NoName) =>
        \A i \in AttemptedPaths :
            LET name == IF /\ EntryFound(i).volume_id.name # NoName
                           /\ EntryFound(i).volume_id.name \notin ActiveBefore(i)
                        THEN EntryFound(i).volume_id.name ELSE UuidName(i)
            IN  /\ name \notin ActiveBefore(i) =>
                      \E k \in Steps({"luks_activate"}) : trace[k].i = i
                /\ i \in ActivatedPaths => name \in active

\* C11 amended: in an open without name override an entry is activated under
\* its name when it has one, else under uuid_<uuid>; when a mapping with that
\* name is active the open fails with DeviceAlreadyActivated(name), this
\* device and the ones after it are not activated, and no other name is
\* tried.
C11_NameOrUuidElseFail ==
    (call.op = "open" /\ call.name_override = NoName) =>
        /\ \A i \in AttemptedPaths :
              IF NameOrUuidName(i) \in ActiveBefore(i)
              THEN /\ res.err = "DeviceAlreadyActivated"
                   /\ res.name = NameOrUuidName(i)
                   /\ \A j \in AttemptedPaths : j <= i
                   /\ i \notin ActivatedPaths
              ELSE \E k \in Steps({"luks_activate"}) : trace[k].i = i
        /\ active = pre.active \cup {NameOrUuidName(i) : i \in ActivatedPaths}

\* an entry named d1 is opened while a mapping d1 is active
C11_Witness ==
    /\ call.op = "open"
    /\ call.name_override = NoName
    /\ BatchSize = 1
    /\ AttemptedPaths = {1}
    /\ EntryFound(1).volume_id.name = "d1"
    /\ "d1" \in pre.active
    /\ res.err = "DeviceAlreadyActivated"

OpenCalled == call.op = "open" /\ pre.file.st = "ok"

\* positions of the batch whose header uuid has no entry in the database
MissingPaths ==
    {i \in HeaderPaths : ~HasUuid(EntriesBefore, HeaderBefore(i))}

\* two positions of the batch carry the same header uuid
SameUuidTwice ==
    \E i, j \in HeaderPaths : i # j /\ HeaderBefore(i) = HeaderBefore(j)

C13_BackupFallsBackToPassphrase ==
    (/\ EnrollCalled
     /\ ~call.format
     /\ call.backup \in {"open_failed", "no_entry"}
     /\ Steps({"open_backup", "backup_find_entry"}) # {})
    => /\ Steps({"prompt_old"}) # {}
       /\ res.err \in {"Ok", "KeyInputError", "DeviceError", "DatabaseError"}
       /\ res.err = "DatabaseError" => Steps({"save"}) # {}

RegisterCalled == call.op = "register" /\ pre.file.st = "ok"

\* C16: register appends one entry per path, with the uuid read from the
\* header of that path, and saves once at the end without any format or
\* add-keyslot call; it takes Passphrase and Keyfile only, and when the kind
\* is another one or a uuid cannot be read it fails, adds no entry and does
\* not write the file.
C16_RegisterAppendsPerPath ==
    RegisterCalled =>
        LET refused == \/ call.entry \notin {"Passphrase", "Keyfile"}
                       \/ HeaderPaths # 1..BatchSize
        IN  /\ dev = pre.dev
            /\ Steps(MutationSteps) = {}
            /\ refused =>
                  /\ res.err \notin {"Ok", "DatabaseError"}
                  /\ Steps({"save"}) = {}
                  /\ file = pre.file
            /\ ~refused =>
                  /\ Steps({"save"}) = {Len(trace)}
                  /\ res.err = "Ok" =>
                        /\ file.st = "ok"
                        /\ Len(file.db.entries) = Len(EntriesBefore) + BatchSize
                        /\ SubSeq(file.db.entries, 1, Len(EntriesBefore)) = EntriesBefore
                        /\ \A i \in 1..BatchSize :
                              LET e == file.db.entries[Len(EntriesBefore) + i]
                              IN  /\ e.volume_id.uuid = HeaderBefore(i)
                                  /\ e.volume_id.name = call.name
                                  /\ e.kind = call.entry

\* two formatted devices registered in one call
C16_Witness ==
    /\ RegisterCalled
    /\ BatchSize = 2
    /\ call.paths[1] # call.paths[2]
    /\ res.err = "Ok"
    /\ Len(file.db.entries) = Len(EntriesBefore) + 2

(* ---------------------------------------------------------------------- *)
(* The JSON encoding                                                       *)
(* ---------------------------------------------------------------------- *)

Opened == codec.opened # <<>>

DocVersion == Field(codec.doc[1], "version").n

\* C14: opening a document whose version is greater than the supported
\* version 1 fails and yields no database; a document of version 1 is
\* accepted.
C14_NewerVersionRejected ==
    Opened =>
        /\ DocVersion > DB_VERSION =>
              codec.opened[1].err # "Ok" /\ codec.opened[1].value = <<>>
        /\ DocVersion = DB_VERSION => codec.opened[1].err = "Ok"

TokenMember(i) ==
    LET e == Field(codec.doc[1], "entries").a[i]
    IN  Field(e.f[1][2], "volume_id")

\* C15: a database of version 1 with Passphrase, Keyfile and Yubikey entries
\* that is saved and opened again comes back equal; an entry with a
\* luks2_token_id is written with the member "luks2_token_id":<n>, and an
\* entry without one is written without that member and still opens.
C15_RoundTrip ==
    Opened /\ codec.db.version = DB_VERSION =>
        /\ codec.opened[1] = [err |-> "Ok", value |-> <<codec.db>>]
        /\ \A i \in DOMAIN codec.db.entries :
              LET token == codec.db.entries[i].volume_id.luks2_token_id
              IN  IF token = NoToken
                  THEN ~HasField(TokenMember(i), "luks2_token_id")
                  ELSE /\ HasField(TokenMember(i), "luks2_token_id")
                       /\ Field(TokenMember(i), "luks2_token_id") = JNum(token)

C15_Witness ==
    /\ Opened /\ codec.db.version = DB_VERSION
    /\ Len(codec.db.entries) = 2
    /\ codec.db.entries[1].kind = "Yubikey"
    /\ codec.db.entries[1].volume_id.luks2_token_id = 42
    /\ codec.db.entries[2].kind = "Keyfile"
    /\ codec.db.entries[2].volume_id.luks2_token_id = NoToken
    /\ codec.db.entries[2].volume_id.name = NoName

(* ---------------------------------------------------------------------- *)
(* The terminal prompt                                                     *)
(* ---------------------------------------------------------------------- *)

StepAt(ev, ok) == {i \in DOMAIN tty.steps : tty.steps[i] = TtyStep(ev, ok)}

EchoDisabled == tty.prompt # "none" /\ StepAt("echo_off", TRUE) # {}

\* C17: every return of the terminal passphrase prompt after echo was
\* disabled (passphrase read, timeout, read error, end of input) comes after
\* the saved attributes were set again, and the terminal mode after the call
\* is the mode before it.
C17_RestoredOnEveryReturn ==
    EchoDisabled =>
        \/ StepAt("reset", FALSE) # {}
        \/ /\ \E i \in StepAt("echo_off", TRUE), j \in StepAt("reset", TRUE) : i < j
           /\ tty.mode = tty.before

\* the same for the prompt of ttypass alone
ReadPasswordRestores == tty.prompt = "read_password" => C17_RestoredOnEveryReturn

ReadPasswordTimedOut ==
    tty.prompt = "read_password" /\ tty.err = "TimedOut" /\ tty.before.echo

(* ---------------------------------------------------------------------- *)
(* The key file                                                            *)
(* ---------------------------------------------------------------------- *)

KeyfileRead == kf.reads > 0 /\ kf.io_ok

\* the file the claim says is read: the path as given when it is absolute,
\* the path below the directory of the database when it is relative
NamedFile ==
    LET p == IF kf.key_path[1] = "/" THEN kf.key_path ELSE DbDir \o kf.key_path
        n == kf.fs[p]
    IN  IF n.kind = "link" THEN kf.fs[n.to] ELSE n

\* C18: the key file provider returns the whole content of the file as the
\* key; an empty file gives an UnexpectedEof error and a missing file
\* FileNotFound, both without a key; a relative path names a file in the
\* directory of the database file, an absolute path is used as given.
C18_KeyfileContent ==
    KeyfileRead =>
        CASE NamedFile.kind = "missing" -> kf.err = "FileNotFound" /\ kf.key = <<>>
          [] NamedFile.bytes = <<>> -> kf.err = "UnexpectedEof" /\ kf.key = <<>>
          [] OTHER -> kf.err = "Ok" /\ kf.key = NamedFile.bytes

C18_Witness ==
    /\ KeyfileRead
    /\ kf.key_path = <<"k">>
    /\ kf.fs[CurrentDir \o <<"k">>] = RegularFile(<<3>>)
    /\ kf.fs[DbDir \o <<"k">>] = RegularFile(<<1, 2>>)
    /\ kf.key = <<1, 2>>

(* ---------------------------------------------------------------------- *)
(* Key material in memory                                                  *)
(* ---------------------------------------------------------------------- *)

\* C19: every buffer that held key material (a passphrase, the content of a
\* key file, a token response, a derived key) holds only zero bytes once its
\* memory is released, whether the operation succeeded or failed.
C19_ReleasedBuffersZeroed ==
    \A i \in DOMAIN mem :
        ~mem[i].live => \A j \in DOMAIN mem[i].bytes : mem[i].bytes[j] = 0

\* the same for the buffers owned by a SecStr and the response block of a
\* successful challenge-response
SecStrZeroed ==
    \A i \in DOMAIN mem :
        ~mem[i].live /\ mem[i].of = "SecStr" => \A j \in DOMAIN mem[i].bytes : mem[i].bytes[j] = 0

(* ---------------------------------------------------------------------- *)
(* The hybrid token key                                                    *)
(* ---------------------------------------------------------------------- *)

HybridKeyReturned ==
    yk.derived > 0 /\ yk.entry_type = "HybridChallengeResponse" /\ yk.err = "Ok"

\* the 20 bytes the token computes for what it was sent
TokenDigest ==
    Whole(Term("hmacsha1", <<TokenSecret(yk.slot), yk.calls[1].challenge>>), 20)

PrevKeyRequests == Steps({"prompt_old", "prompt_backup"})
NewKeyRequests == Steps({"prompt_new"})

\* C21: enroll_disks asks for keys a fixed number of times whatever the size
\* of the batch.  With format=true there is no previous-key request and one
\* new-key request, for the first entry, and every device is formatted with
\* that key.  With format=false there is one previous-key request (through
\* the backup database when one is given, else the passphrase prompt for
\* the first entry) and after it one new-key request; every add-keyslot call
\* unlocks with that previous key and writes that new key.  No adapter call
\* is made before the requests.
C21_KeysRequestedOnce ==
    EnrollCalled =>
        /\ Cardinality(NewKeyRequests) <= 1
        /\ Cardinality(PrevKeyRequests) <= 1
        /\ \A k \in NewKeyRequests \cup PrevKeyRequests : trace[k].i = 1
        /\ call.format => PrevKeyRequests = {}
        /\ Steps({"prompt_old"}) # {} => call.backup = "none"
        /\ Steps({"prompt_backup"}) # {} => call.backup # "none"
        /\ \A o \in PrevKeyRequests, k \in NewKeyRequests : o < k
        /\ Steps(MutationSteps) # {} =>
              /\ Cardinality(NewKeyRequests) = 1
              /\ ~call.format => Cardinality(PrevKeyRequests) = 1
              /\ \A k \in NewKeyRequests, m \in Steps(MutationSteps) : k < m
              /\ \E old \in Keys, new \in Keys :
                    \A m \in Steps(MutationSteps) :
                        trace[m].ok =>
                            IF call.format
                            THEN trace[m].after.slots = {new}
                            ELSE /\ old \in pre.dev[call.paths[trace[m].i]].slots
                                 /\ trace[m].after.slots =
                                        pre.dev[call.paths[trace[m].i]].slots \cup {new}

\* two formatted devices given a new keyslot after one previous-key and one
\* new-key request
C21_Witness ==
    /\ EnrollCalled
    /\ ~call.format
    /\ BatchSize = 2
    /\ res.err = "Ok"
    /\ Cardinality(PrevKeyRequests) = 1
    /\ Cardinality(NewKeyRequests) = 1
    /\ Cardinality({m \in Steps({"add_key"}) : trace[m].ok}) = 2

(* ---------------------------------------------------------------------- *)
(* enroll_disks: the entries it makes                                      *)
(* ---------------------------------------------------------------------- *)

\* the entries enroll_disks put behind those the database had
EntriesAdded == SubSeq(db.entries, Len(EntriesBefore) + 1, Len(db.entries))

\* C22: the name of the enrolment parameters is stored only when the batch
\* has exactly one path: then the new entry carries it; with several paths
\* every new entry has no name.  Stated of both enrolments of the program,
\* enroll_disks and the handler of `peroxs enroll`.
C22_NameOnlyForSinglePath ==
    (call.op \in {"enroll", "enroll_cmd"} /\ pre.file.st = "ok") =>
        /\ \A k \in DOMAIN EntriesAdded :
              EntriesAdded[k].volume_id.name =
                  IF BatchSize = 1 THEN call.name ELSE NoName
        /\ \A k \in DOMAIN res.entries :
              res.entries[k].volume_id.name =
                  IF BatchSize = 1 THEN call.name ELSE NoName
        /\ res.err = "Ok" => Len(res.entries) = BatchSize /\ res.entries = EntriesAdded

\* C23: the token id of a VolumeId is written at most once, right after the
\* format: an entry made by a LUKS2 format carries the id of the token the
\* format attached to the keyslot; an entry made by a LUKS1 format or by
\* add-keyslot carries none.  Nothing else of the entry changes between its
\* creation by entry_from and its insertion into the database.
C23_TokenIdOnlyFromV2Format ==
    EnrollCalled =>
        \A k \in DOMAIN EntriesAdded :
            LET e == EntriesAdded[k]
            IN  /\ e.volume_id.luks2_token_id =
                       IF call.format /\ call.luks = 2
                       THEN FormatResult_token_id(2) ELSE NoToken
                /\ call.format /\ call.luks = 2 => e.volume_id.luks2_token_id # NoToken
                /\ [e EXCEPT !.volume_id.luks2_token_id = NoToken] =
                       entry_from(VolumeId_of(e.volume_id.name, e.volume_id.uuid),
                                  call.entry)
                /\ e.volume_id.uuid # NoUuid
                /\ HeaderBefore(k) # NoUuid => e.volume_id.uuid = HeaderBefore(k)

\* two devices formatted as LUKS2: both entries carry the token id
C23_Witness ==
    /\ EnrollCalled
    /\ call.format
    /\ call.luks = 2
    /\ BatchSize = 2
    /\ res.err = "Ok"
    /\ Len(EntriesAdded) = 2
    /\ \A k \in DOMAIN EntriesAdded :
          EntriesAdded[k].volume_id.luks2_token_id = FirstTokenId

(* ---------------------------------------------------------------------- *)
(* open_disks: the key, the names, the failures                            *)
(* ---------------------------------------------------------------------- *)

\* C24: open_disks asks for a key once whatever the number of devices: with
\* several devices through the first entry, before any activation, and that
\* one key is given to the activation of every device; with one device once,
\* through the entry of that device.
C24_OneKeyForTheBatch ==
    OpenCalled =>
        /\ Cardinality(Steps({"prompt"})) <= 1
        /\ \A k \in Steps({"prompt"}) : trace[k].i = 1
        /\ Steps({"is_device_active", "luks_activate"}) # {} =>
              /\ Cardinality(Steps({"prompt"})) = 1
              /\ \A k \in Steps({"prompt"}) :
                    /\ trace[k].ok
                    /\ \A a \in Steps({"is_device_active", "luks_activate"}) : k < a
        /\ ActivatedSteps # {} =>
              \E key \in Keys :
                  \A a \in ActivatedSteps : key \in dev[call.paths[trace[a].i]].slots

\* two devices activated after one key request
C24_Witness ==
    /\ OpenCalled
    /\ BatchSize = 2
    /\ res.err = "Ok"
    /\ Cardinality(Steps({"prompt"})) = 1
    /\ Cardinality(ActivatedSteps) = 2

\* C26: in an open of several devices without name override an entry that
\* has a name is activated under <name>_<index>, the index counted from 0
\* as for an override; in an open of one device the name is taken as it is:
\* the override when given, else the name of the entry, else uuid_<uuid>.
C26_EntryNameIndexed ==
    OpenCalled =>
        /\ (BatchSize >= 2 /\ call.name_override = NoName) =>
              \A i \in ActivatedPaths :
                  EntryFound(i).volume_id.name # NoName =>
                      (EntryFound(i).volume_id.name \o "_" \o ToString(i - 1)) \in active
        /\ BatchSize = 1 =>
              \A i \in ActivatedPaths :
                  res.names = <<IF call.name_override # NoName
                                THEN call.name_override ELSE NameOrUuidName(i)>>

\* the steps of an open at which the activation of a device was refused or
\* failed
FailedActivations ==
    {k \in Steps({"is_device_active", "luks_activate"}) : ~trace[k].ok}

\* C27: when the activation of the device at position k fails, open_disks
\* returns that error without trying the devices behind it, and the mappings
\* made for the devices in front of it stay active.  open_disks never
\* changes the database, in memory or on disk, nor a device.
C27_FirstFailureStops ==
    /\ call.op = "open" => file = pre.file /\ dev = pre.dev
    /\ OpenCalled =>
          /\ db = pre.file.db
          /\ pre.active \subseteq active
          /\ Cardinality(FailedActivations) <= 1
          /\ \A f \in FailedActivations :
                LET k == trace[f].i
                IN  /\ res.err = IF trace[f].ev = "is_device_active"
                                 THEN "DeviceAlreadyActivated" ELSE "DeviceError"
                    /\ f = Len(trace)
                    /\ AttemptedPaths = 1..k
                    /\ ActivatedPaths = 1..(k - 1)
                    /\ active = pre.active \cup {ExpectedMapperName(j) : j \in 1..(k - 1)}
                    /\ res.names = <<>>
          /\ FailedActivations = {} /\ AttemptedPaths # {} =>
                /\ res.err = "Ok"
                /\ ActivatedPaths = 1..BatchSize

\* the second of two devices fails to activate: the first stays mapped
C27_Witness ==
    /\ OpenCalled
    /\ BatchSize = 2
    /\ \E f \in FailedActivations : trace[f].i = 2
    /\ ActivatedPaths = {1}
    /\ active # pre.active
    /\ res.err \in {"DeviceError", "DeviceAlreadyActivated"}

\* C29: is_active(entry, name_override) looks at the mapper name that
\* activate_with_key would take for the same arguments: in an open of one
\* device that gets as far as the activation, is_active on the mappings
\* active before the call is true exactly when the activation is refused
\* with DeviceAlreadyActivated.
C29_IsActiveAgreesWithActivation ==
    (OpenCalled /\ BatchSize = 1 /\ Steps({"is_device_active"}) # {}) =>
        (is_active(pre.active, EntryFound(1), call.name_override)
            <=> res.err = "DeviceAlreadyActivated")

(* ---------------------------------------------------------------------- *)
(* peroxs init                                                             *)
(* ---------------------------------------------------------------------- *)

\* C30: newdb never overwrites.  When something exists at the location of the
\* database it fails with a validation error and leaves the file as it is;
\* otherwise it saves a database without entries, of the type asked for and
\* of version 1, and an error of that save is the error it returns.
C30_NewDbNeverOverwrites ==
    call.op = "newdb" =>
        /\ dev = pre.dev /\ active = pre.active
        /\ IF pre.file.st # "absent"
           THEN /\ res.err = "ValidationError"
                /\ file = pre.file
                /\ Steps({"save"}) = {}
           ELSE /\ res.err \in {"Ok", "DatabaseError"}
                /\ res.err = "Ok" =>
                      /\ file.st = "ok"
                      /\ file.db = [db_type |-> call.db_type, entries |-> <<>>,
                                    version |-> 1]
                /\ res.err = "DatabaseError" => file.st # "ok"

\* newdb on a location that holds a database with an entry: refused, the
\* file still holds the entry
C30_Witness ==
    /\ call.op = "newdb"
    /\ pre.file.st = "ok"
    /\ pre.file.db.entries # <<>>
    /\ res.err = "ValidationError"
    /\ file = pre.file

(* ---------------------------------------------------------------------- *)
(* enroll_disks: the database of the caller after an error                 *)
(* ---------------------------------------------------------------------- *)

\* C28: whenever enroll_disks returns an error, a failing final save
\* included, the database the caller holds in memory has exactly the
\* entries it had before the call.
C28_DbUnchangedOnError ==
    (EnrollCalled /\ res.err # "Ok") => db.entries = EntriesBefore

(* ---------------------------------------------------------------------- *)
(* yk_init: one initialization for the process                             *)
(* ---------------------------------------------------------------------- *)

\* the threads whose last call of yk_init has returned or panicked
YkInitDone == {t \in 1..NumThreads : ffi.ret[t] # "none"}

\* the native initializer ran at most once, and nobody opens the token
\* before it has completed with success
InitializedOnceBeforeOpen ==
    /\ ffi.runs <= 1
    /\ \A t \in 1..NumThreads :
          ffi.pc[t] \in {"load", "open"} =>
              /\ ffi.once = "done"
              /\ ffi.runs = 1
              /\ ffi.pc[t] = "open" => ffi.native = "Ok"

\* C25: over any number of calls of yk_init, from one thread or several, the
\* native initializer runs at most once; every call returns the outcome of
\* that one run; and no caller goes on to open the token before the
\* initializer has completed.
C25_InitOnceSameOutcome ==
    /\ InitializedOnceBeforeOpen
    /\ \A t \in YkInitDone : ffi.ret[t] = ffi.native

====
